---- MODULE Spec2Model ----
(***************************************************************************)
(* Role Resolution & Injection Engine of role_injector.py: the pipeline    *)
(* scan_role_usage -> update_tmg_structure -> load_persons_and_events ->   *)
(* inject_witnesses, run by inject_roles_mode / main over a mapping file,  *)
(* a GEDCOM file and the four TMG tables ($, G, T, E).                     *)
(***************************************************************************)
EXTENDS Integers, Sequences, FiniteSets, TLC

(***************************************************************************)
(* Bounds of the model.                                                    *)
(***************************************************************************)
\* witness references (_SHAR sub-blocks) per event of the generated files
MaxShars == 2

(***************************************************************************)
(* Python values.  None is modelled by the string below where the value is *)
(* a string, and by 0 where it is a number: the code only ever tests such  *)
(* values for truthiness (`if not eid`, `if pper`, `if not final_code`).   *)
(***************************************************************************)
None == "<None>"

Truthy(s) == s # None /\ s # ""

RECURSIVE SeqMax(_)
SeqMax(s) == IF s = <<>> THEN 0
             ELSE LET m == SeqMax(Tail(s)) IN IF Head(s) > m THEN Head(s) ELSE m

Range(s) == {s[i] : i \in 1..Len(s)}

\* dict.get(k, default) on a dict modelled as a function
DictGet(d, k, default) == IF k \in DOMAIN d THEN d[k] ELSE default

(***************************************************************************)
(* Text helpers.  The texts that occur in the model form a finite          *)
(* vocabulary; normalize() and str.title() are given on it.                *)
(***************************************************************************)
\* normalize(txt): unidecode, upper-case, strip
normalize(txt) ==
  CASE txt = None -> ""
    [] txt = "" -> ""
    [] txt = "Marriage" -> "MARRIAGE"
    [] txt = "Birth" -> "BIRTH"
    [] txt = "Deed" -> "DEED"
    [] txt = "Sale" -> "SALE"
    [] txt = "Divorce" -> "DIVORCE"
    [] txt = "Witness" -> "WITNESS"
    [] txt = "Principal Witness" -> "PRINCIPAL WITNESS"
    [] txt = "Principal" -> "PRINCIPAL"
    [] txt \in {"Buyer", "buyer"} -> "BUYER"
    [] txt = "Principal Buyer" -> "PRINCIPAL BUYER"
    [] txt = "Acheteur" -> "ACHETEUR"
    [] txt = "Principal Acheteur" -> "PRINCIPAL ACHETEUR"
    [] txt \in {"Seller", "seller"} -> "SELLER"
    [] txt = "Principal Seller" -> "PRINCIPAL SELLER"
    [] txt \in {"Témoin", "Temoin"} -> "TEMOIN"
    [] txt \in {"Principal Témoin", "Principal Temoin"} -> "PRINCIPAL TEMOIN"
    [] OTHER -> txt   \* upper-case ASCII text (GEDCOM tags, normalized keys)

(***************************************************************************)
(* GEDCOM lines.  A line "<level> <tag> <value>" is the record of its      *)
(* three parts (line.strip().split(' ', 2)).                               *)
(***************************************************************************)
Line(lvl, tag, val) == [lvl |-> lvl, tag |-> tag, val |-> val]

IndiIds == {"I1", "I2", "I3", "I4"}
FamIds == {"F1"}

AtRef(id) == "@" \o id \o "@"

\* s.strip('@')
StripAt(s) == IF \E id \in IndiIds \cup FamIds : s = AtRef(id)
              THEN CHOOSE id \in IndiIds \cup FamIds : s = AtRef(id)
              ELSE s

\* tag.startswith('@I'), line.startswith('0 @I')
StartsWithAtI(tag) == \E id \in IndiIds : tag = AtRef(id)
\* line.startswith('0 @F')
StartsWithAtF(tag) == \E id \in FamIds : tag = AtRef(id)

(***************************************************************************)
(* Pass 1: scan_role_usage / _analyze_role_usage.                          *)
(* role_usage is an insertion-ordered dict: a sequence of entries, one per *)
(* normalized role, in order of first appearance.                          *)
(***************************************************************************)
UsageIndex(usage, key) ==
  IF \E i \in 1..Len(usage) : usage[i].key = key
  THEN CHOOSE i \in 1..Len(usage) : usage[i].key = key
  ELSE 0

\* ROLES_DB.get(role_norm, {"eng": role_raw.title(), "fra": role_raw.title()})
RoleInfo(roles_db, role_norm, role_raw) ==
  LET \* str.title()
      Title(txt) ==
        CASE txt \in {"buyer", "BUYER"} -> "Buyer"
          [] txt \in {"seller", "SELLER"} -> "Seller"
          [] txt = "WITNESS" -> "Witness"
          [] OTHER -> txt   \* already title-cased
  IN DictGet(roles_db, role_norm, [eng |-> Title(role_raw), fra |-> Title(role_raw)])

\* (mutation of AnalyzeShar: the flags are those of the last reference, not
\* accumulated over the file)
AnalyzeSharLastWins(owner_id, event_name_norm, shar, usage, roles_db) ==
  LET role_norm == normalize(shar.role)
      info == RoleInfo(roles_db, role_norm, shar.role)
      u0 == IF UsageIndex(usage, role_norm) = 0
            THEN Append(usage, [key |-> role_norm, normal |-> FALSE, principal |-> FALSE,
                                eng |-> info.eng, fra |-> info.fra, events |-> {}])
            ELSE usage
      i == UsageIndex(u0, role_norm)
  IN [u0 EXCEPT ![i].events = @ \cup {event_name_norm},
                ![i].principal = (shar.id = owner_id),
                ![i].normal = (shar.id # owner_id)]

\* one iteration of the loop of _analyze_role_usage
AnalyzeShar(owner_id, event_name_norm, shar, usage, roles_db) ==
  LET role_norm == normalize(shar.role)
      info == RoleInfo(roles_db, role_norm, shar.role)
      u0 == IF UsageIndex(usage, role_norm) = 0
            THEN Append(usage, [key |-> role_norm, normal |-> FALSE, principal |-> FALSE,
                                eng |-> info.eng, fra |-> info.fra, events |-> {}])
            ELSE usage
      i == UsageIndex(u0, role_norm)
  IN [u0 EXCEPT ![i].events = @ \cup {event_name_norm},
                ![i].principal = @ \/ (shar.id = owner_id),
                ![i].normal = @ \/ (shar.id # owner_id)]

RECURSIVE _analyze_role_usage(_, _, _, _, _)
_analyze_role_usage(owner_id, event_name_norm, shars, usage, roles_db) ==
  IF shars = <<>> THEN usage
  ELSE _analyze_role_usage(owner_id, event_name_norm, Tail(shars),
         AnalyzeShar(owner_id, event_name_norm, Head(shars), usage, roles_db), roles_db)

\* the tags scan_role_usage treats as events
ScanEventTags == {"BIRT", "DEAT", "MARR", "EVEN", "FACT", "OCCU",
                  "BAPM", "BURI", "CHR", "CENS", "GRAD", "RESI"}
GenericTags == {"EVEN", "FACT", "OCCU"}

\* normalize(EVENT_MAPPING.get(normalize(x), x))
ScanEventName(event_mapping, x) == normalize(DictGet(event_mapping, normalize(x), x))

ScanInit == [indi |-> None, tag |-> None, type |-> None, name |-> None,
             shars |-> <<>>, usage |-> <<>>]

\* the body of the `for line in lines` loop of scan_role_usage
ScanLine(s, l, event_mapping, roles_db) ==
  LET flushed == IF s.shars # <<>> /\ Truthy(s.name)
                 THEN _analyze_role_usage(s.indi, s.name, s.shars, s.usage, roles_db)
                 ELSE s.usage
  IN
  IF l.lvl = 0 /\ StartsWithAtI(l.tag) THEN
     [indi |-> StripAt(l.tag), tag |-> None, type |-> None, name |-> None, shars |-> <<>>,
      usage |-> IF Truthy(s.indi) THEN flushed ELSE s.usage]
  ELSE IF l.lvl = 1 /\ Truthy(s.indi) THEN
     IF l.tag \in ScanEventTags THEN
        LET ty == IF l.tag \in GenericTags THEN l.val ELSE None
            nm == IF Truthy(ty) THEN ScanEventName(event_mapping, ty)
                  ELSE ScanEventName(event_mapping, l.tag)
        IN [s EXCEPT !.tag = l.tag, !.type = ty, !.name = nm, !.shars = <<>>,
                     !.usage = flushed]
     ELSE [s EXCEPT !.tag = None, !.name = None, !.shars = <<>>, !.usage = flushed]
  ELSE IF l.lvl = 2 /\ l.tag = "TYPE" /\ Truthy(s.tag) THEN
     [s EXCEPT !.type = l.val, !.name = ScanEventName(event_mapping, l.val)]
  ELSE IF l.lvl = 2 /\ l.tag = "_SHAR" /\ Truthy(s.tag) THEN
     [s EXCEPT !.shars = Append(@, [id |-> StripAt(l.val), role |-> "Witness"])]
  ELSE IF l.lvl = 3 /\ l.tag = "ROLE" /\ s.shars # <<>> THEN
     [s EXCEPT !.shars[Len(s.shars)].role = l.val]
  ELSE s

RECURSIVE ScanLines(_, _, _, _)
ScanLines(s, lines, event_mapping, roles_db) ==
  IF lines = <<>> THEN s
  ELSE ScanLines(ScanLine(s, Head(lines), event_mapping, roles_db), Tail(lines),
                 event_mapping, roles_db)

\* scan_role_usage(): the role_usage table of a GEDCOM file
scan_role_usage(lines, event_mapping, roles_db) ==
  LET s == ScanLines(ScanInit, lines, event_mapping, roles_db)
  IN IF Truthy(s.indi) /\ s.shars # <<>> /\ Truthy(s.name)
     THEN _analyze_role_usage(s.indi, s.name, s.shars, s.usage, roles_db)
     ELSE s.usage

(***************************************************************************)
(* Role codes as text: f"{n:05d}", int(s), str.isdigit(), str.zfill(5).    *)
(***************************************************************************)
\* the decimal digits of n, without padding
RECURSIVE DecStr(_)
DecStr(n) ==
  LET DigitChar(d) == CASE d = 0 -> "0" [] d = 1 -> "1" [] d = 2 -> "2" [] d = 3 -> "3"
                        [] d = 4 -> "4" [] d = 5 -> "5" [] d = 6 -> "6" [] d = 7 -> "7"
                        [] d = 8 -> "8" [] d = 9 -> "9"
  IN IF n < 10 THEN DigitChar(n) ELSE DecStr(n \div 10) \o DigitChar(n % 10)

RECURSIVE Zeros(_)
Zeros(k) == IF k <= 0 THEN "" ELSE "0" \o Zeros(k - 1)

\* s.zfill(5)
Zfill5(s) == Zeros(5 - Len(s)) \o s

\* f"{n:05d}"
Fmt05(n) == Zfill5(DecStr(n))

\* the numbers a role code can take in the model
CodeRange == 0..99

\* the digit strings of at most five characters, with the number each one writes
Numerals == {<<Zeros(k) \o DecStr(n), n>> : n \in CodeRange, k \in 0..4}
NumeralTexts == {p[1] : p \in {q \in Numerals : Len(q[1]) <= 5}}
NumeralValue == [s \in NumeralTexts |-> (CHOOSE p \in Numerals : p[1] = s)[2]]

\* s.isdigit()
IsDigit(s) == s \in NumeralTexts

\* int(s)
IntOf(s) == NumeralValue[s]

\* a role value as the dbf layer hands it over: an int or a str
IntVal(n) == [t |-> "int", n |-> n, s |-> ""]
StrVal(s) == [t |-> "str", n |-> 0, s |-> s]

\* (mutation of normalize_role_id: the digits are kept as they are stored)
NormalizeRoleIdUnpadded(val) == IF val.t = "int" THEN DecStr(val.n) ELSE val.s

\* normalize_role_id(val) (the stored text carries no surrounding blanks)
normalize_role_id(val) ==
  IF val.t = "int" THEN Fmt05(val.n)
  ELSE IF IsDigit(val.s) THEN Zfill5(val.s)
  ELSE val.s

(***************************************************************************)
(* The role grammar (TSENTENCE) as a sequence of tokens:                   *)
(*   CR         "\r"                                                       *)
(*   LABELS     "[LABELS:]"          ENDLABELS  "[:LABELS]"                *)
(*   RL s       "[RL=<s>]"           L s        "[L=<s>]"                  *)
(*   TXT s      a run of text without "[", "\r", "\n"                      *)
(***************************************************************************)
Tok(k, s) == [k |-> k, s |-> s]
CRTok == Tok("CR", "")

HasTok(sent, k) == \E i \in 1..Len(sent) : sent[i].k = k

\* index of the first token of kind k, Len(sent) + 1 when there is none
FirstTok(sent, k) ==
  IF HasTok(sent, k)
  THEN CHOOSE i \in 1..Len(sent) : sent[i].k = k /\ \A j \in 1..(i - 1) : sent[j].k # k
  ELSE Len(sent) + 1

\* str.strip() on a token sequence
StripCR(sent) ==
  LET RECURSIVE LStripCR(_)
      LStripCR(x) == IF x # <<>> /\ Head(x).k = "CR" THEN LStripCR(Tail(x)) ELSE x
      RECURSIVE RStripCR(_)
      RStripCR(x) == IF x # <<>> /\ x[Len(x)].k = "CR"
                     THEN RStripCR(SubSeq(x, 1, Len(x) - 1)) ELSE x
  IN RStripCR(LStripCR(sent))

\* sent.split("[LABELS:]")[1].split("[:LABELS]")[0]
LabelsContent(sent) ==
  LET rest == SubSeq(sent, FirstTok(sent, "LABELS") + 1, Len(sent))
      piece == SubSeq(rest, 1, FirstTok(rest, "LABELS") - 1)
  IN SubSeq(piece, 1, FirstTok(piece, "ENDLABELS") - 1)

DictPut(d, k, v) == [x \in DOMAIN d \cup {k} |-> IF x = k THEN v ELSE d[x]]
EmptyDict == [x \in {} |-> 0]

\* regex_full_role / regex_lbl over the label section: every text run that
\* follows an [RL=n] is a label of n; a later entry overwrites an earlier one
RECURSIVE ParseLabels(_, _)
ParseLabels(toks, st) ==
  IF toks = <<>> THEN st
  ELSE LET t == Head(toks) IN
       ParseLabels(Tail(toks),
         IF t.k = "RL" THEN
            [st EXCEPT !.rid = IntOf(t.s),
                       !.max_role_id = IF IntOf(t.s) > @ THEN IntOf(t.s) ELSE @]
         ELSE IF t.k = "TXT" /\ st.rid >= 0 THEN
            [st EXCEPT !.existing_roles = DictPut(@, normalize(t.s), st.rid)]
         ELSE st)

ParseGrammar(sent) ==
  ParseLabels(LabelsContent(sent),
              [rid |-> -1, max_role_id |-> 0, existing_roles |-> EmptyDict])

\* the codes written in the label section, in order
SectionCodes(sent) ==
  LET c == LabelsContent(sent)
      idx == {i \in 1..Len(c) : c[i].k = "RL"}
      RECURSIVE Collect(_)
      Collect(i) == IF i > Len(c) THEN <<>>
                    ELSE IF i \in idx THEN <<IntOf(c[i].s)>> \o Collect(i + 1)
                    ELSE Collect(i + 1)
  IN Collect(1)

(***************************************************************************)
(* Pass 2: update_tmg_structure.                                           *)
(* A T.DBF record is [etypenum, etypename, tsentence, prinrole, witrole].  *)
(* role_codes[eid] is a dict role_norm -> {'NORMAL': n, 'PRINCIPAL': n};   *)
(* a variant that was never set reads 0 (dict.get gives None, and the      *)
(* injector tests the code for truthiness only).                           *)
(***************************************************************************)
NoCodes == [NORMAL |-> 0, PRINCIPAL |-> 0]

\* `final_code = 2  # Code par defaut Witness`
DefaultCode == 2

\* role_codes[eid].setdefault(role_norm, {})[variant] = code
SetCode(codes, role_norm, variant, code) ==
  LET cur == DictGet(codes, role_norm, NoCodes)
  IN DictPut(codes, role_norm,
             IF variant = "NORMAL" THEN [cur EXCEPT !.NORMAL = code]
             ELSE [cur EXCEPT !.PRINCIPAL = code])

\* roles_for_this_event: the entries of role_usage whose events hold ename_norm
RECURSIVE RolesForEvent(_, _)
RolesForEvent(usage, ename_norm) ==
  IF usage = <<>> THEN <<>>
  ELSE IF ename_norm \in Head(usage).events
       THEN <<Head(usage)>> \o RolesForEvent(Tail(usage), ename_norm)
       ELSE RolesForEvent(Tail(usage), ename_norm)

PrincipalLabel(base) == "Principal " \o base

\* (mutation of NeedRole: a principal use does not ask for the principal flag)
NeedRoleNoPrinFlag(st, data, existing_roles) ==
  LET s1 == IF data.normal THEN
               IF normalize(data.eng) \in DOMAIN existing_roles
               THEN [st EXCEPT !.needs_witrole = TRUE,
                               !.codes = SetCode(@, data.key, "NORMAL",
                                                 existing_roles[normalize(data.eng)])]
               ELSE [st EXCEPT !.needs_witrole = TRUE,
                               !.roles_to_create = Append(@,
                                  [eng |-> data.eng, fra |-> data.fra,
                                   key |-> data.key, type |-> "NORMAL"])]
            ELSE st
      prin_eng == PrincipalLabel(data.eng)
      prin_fra == PrincipalLabel(data.fra)
  IN IF data.principal THEN
        IF normalize(prin_eng) \in DOMAIN existing_roles
        THEN [s1 EXCEPT !.codes = SetCode(@, data.key, "PRINCIPAL",
                                          existing_roles[normalize(prin_eng)])]
        ELSE [s1 EXCEPT !.roles_to_create = Append(@,
                           [eng |-> prin_eng, fra |-> prin_fra,
                            key |-> data.key, type |-> "PRINCIPAL"])]
     ELSE s1

\* one iteration of `for role_norm, data in roles_for_this_event`
NeedRole(st, data, existing_roles) ==
  LET s1 == IF data.normal THEN
               IF normalize(data.eng) \in DOMAIN existing_roles
               THEN [st EXCEPT !.needs_witrole = TRUE,
                               !.codes = SetCode(@, data.key, "NORMAL",
                                                 existing_roles[normalize(data.eng)])]
               ELSE [st EXCEPT !.needs_witrole = TRUE,
                               !.roles_to_create = Append(@,
                                  [eng |-> data.eng, fra |-> data.fra,
                                   key |-> data.key, type |-> "NORMAL"])]
            ELSE st
      prin_eng == PrincipalLabel(data.eng)
      prin_fra == PrincipalLabel(data.fra)
  IN IF data.principal THEN
        IF normalize(prin_eng) \in DOMAIN existing_roles
        THEN [s1 EXCEPT !.needs_prinrole = TRUE,
                        !.codes = SetCode(@, data.key, "PRINCIPAL",
                                          existing_roles[normalize(prin_eng)])]
        ELSE [s1 EXCEPT !.needs_prinrole = TRUE,
                        !.roles_to_create = Append(@,
                           [eng |-> prin_eng, fra |-> prin_fra,
                            key |-> data.key, type |-> "PRINCIPAL"])]
     ELSE s1

RECURSIVE NeedRoles(_, _, _)
NeedRoles(st, roles, existing_roles) ==
  IF roles = <<>> THEN st
  ELSE NeedRoles(NeedRole(st, Head(roles), existing_roles), Tail(roles), existing_roles)

\* `for new_role in roles_to_create`: codes max_role_id + 1, + 2, ...
RECURSIVE CreateRoles(_, _)
CreateRoles(st, to_create) ==
  IF to_create = <<>> THEN st
  ELSE LET new_role == Head(to_create)
           current_id == st.current_id + 1
       IN CreateRoles(
            [current_id |-> current_id,
             insertion |-> st.insertion \o
                <<CRTok, Tok("RL", Fmt05(current_id)),
                  Tok("L", "ENGLISH"), Tok("TXT", new_role.eng),
                  Tok("L", "FRENCH"), Tok("TXT", new_role.fra)>>,
             codes |-> SetCode(st.codes, new_role.key, new_role.type, current_id),
             created |-> Append(st.created, current_id)],
            Tail(to_create))

\* (mutation of StartId: the allocation starts one too low)
StartIdBelowMax(max_role_id) == max_role_id - 1

\* the code the allocation starts from: current_id = max_role_id
StartId(max_role_id) == max_role_id

\* parts[0] + insertion_str + "\r[:LABELS]" + (parts[1] if len(parts) > 1 else "")
\* where parts = sent.split("[:LABELS]")
InsertIntoSentence(sent, insertion) ==
  LET a == FirstTok(sent, "ENDLABELS")
      part0 == SubSeq(sent, 1, a - 1)
      rest == SubSeq(sent, a + 1, Len(sent))
      part1 == SubSeq(rest, 1, FirstTok(rest, "ENDLABELS") - 1)
  IN part0 \o insertion \o <<CRTok, Tok("ENDLABELS", "")>> \o part1

\* (mutation of SyncRecord: a record with roles in use is written even when
\* nothing is to be created or turned on)
SyncRecordAlways(rec, role_usage, dry_run) ==
  LET ename_norm == normalize(rec.etypename)
      sent0 == StripCR(rec.tsentence)
      sent == IF ~HasTok(sent0, "LABELS")
              THEN sent0 \o <<CRTok, Tok("LABELS", ""), CRTok, Tok("ENDLABELS", "")>>
              ELSE sent0
      parsed == ParseGrammar(sent)
      roles == RolesForEvent(role_usage, ename_norm)
      need == NeedRoles([codes |-> EmptyDict, roles_to_create |-> <<>>,
                         needs_prinrole |-> FALSE, needs_witrole |-> FALSE],
                        roles, parsed.existing_roles)
      change == TRUE
      made == CreateRoles([current_id |-> StartId(parsed.max_role_id), insertion |-> <<>>,
                           codes |-> need.codes, created |-> <<>>],
                          need.roles_to_create)
      new_sent == IF made.insertion # <<>> THEN InsertIntoSentence(sent, made.insertion)
                  ELSE sent
  IN IF roles = <<>> THEN
        [rec |-> rec, ename_norm |-> ename_norm, codes |-> EmptyDict,
         created |-> <<>>, written |-> FALSE]
     ELSE IF change THEN
        [rec |-> IF dry_run THEN rec
                 ELSE [rec EXCEPT !.tsentence = new_sent,
                                  !.prinrole = need.needs_prinrole \/ rec.prinrole,
                                  !.witrole = need.needs_witrole \/ rec.witrole],
         ename_norm |-> ename_norm, codes |-> made.codes,
         created |-> made.created, written |-> ~dry_run]
     ELSE
        [rec |-> rec, ename_norm |-> ename_norm, codes |-> need.codes,
         created |-> <<>>, written |-> FALSE]

\* the body of `for rec in t`: the record as written back (or left alone), the
\* role codes of the event type, the codes allocated, and whether dbf.write ran
SyncRecord(rec, role_usage, dry_run) ==
  LET ename_norm == normalize(rec.etypename)
      sent0 == StripCR(rec.tsentence)
      sent == IF ~HasTok(sent0, "LABELS")
              THEN sent0 \o <<CRTok, Tok("LABELS", ""), CRTok, Tok("ENDLABELS", "")>>
              ELSE sent0
      parsed == ParseGrammar(sent)
      roles == RolesForEvent(role_usage, ename_norm)
      need == NeedRoles([codes |-> EmptyDict, roles_to_create |-> <<>>,
                         needs_prinrole |-> FALSE, needs_witrole |-> FALSE],
                        roles, parsed.existing_roles)
      change == \/ need.roles_to_create # <<>>
                \/ (need.needs_prinrole /\ ~rec.prinrole)
                \/ (need.needs_witrole /\ ~rec.witrole)
      made == CreateRoles([current_id |-> StartId(parsed.max_role_id), insertion |-> <<>>,
                           codes |-> need.codes, created |-> <<>>],
                          need.roles_to_create)
      new_sent == IF made.insertion # <<>> THEN InsertIntoSentence(sent, made.insertion)
                  ELSE sent
  IN IF roles = <<>> THEN
        [rec |-> rec, ename_norm |-> ename_norm, codes |-> EmptyDict,
         created |-> <<>>, written |-> FALSE]
     ELSE IF change THEN
        [rec |-> IF dry_run THEN rec
                 ELSE [rec EXCEPT !.tsentence = new_sent,
                                  !.prinrole = need.needs_prinrole \/ rec.prinrole,
                                  !.witrole = need.needs_witrole \/ rec.witrole],
         ename_norm |-> ename_norm, codes |-> made.codes,
         created |-> made.created, written |-> ~dry_run]
     ELSE
        [rec |-> rec, ename_norm |-> ename_norm, codes |-> need.codes,
         created |-> <<>>, written |-> FALSE]

\* update_tmg_structure(role_usage): the loop over T.DBF
RECURSIVE SyncTable(_, _, _, _)
SyncTable(t, role_usage, dry_run, acc) ==
  IF t = <<>> THEN acc
  ELSE LET r == SyncRecord(Head(t), role_usage, dry_run)
           eid == Head(t).etypenum
       IN SyncTable(Tail(t), role_usage, dry_run,
            [table |-> Append(acc.table, r.rec),
             event_ids |-> DictPut(acc.event_ids, r.ename_norm, eid),
             role_codes |-> DictPut(acc.role_codes, eid, r.codes),
             created |-> DictPut(acc.created, eid, r.created),
             modifications |-> IF r.written THEN Append(acc.modifications, eid)
                               ELSE acc.modifications])

\* (mutation of update_tmg_structure: the simulation flag is not honoured)
UpdateIgnoringDryRun(t, role_usage, dry_run) ==
  SyncTable(t, role_usage, FALSE,
            [table |-> <<>>, event_ids |-> EmptyDict, role_codes |-> EmptyDict,
             created |-> EmptyDict, modifications |-> <<>>])

update_tmg_structure(t, role_usage, dry_run) ==
  SyncTable(t, role_usage, dry_run,
            [table |-> <<>>, event_ids |-> EmptyDict, role_codes |-> EmptyDict,
             created |-> EmptyDict, modifications |-> <<>>])

(***************************************************************************)
(* Pass 3: load_persons_and_events.                                        *)
(*   $.DBF row  [per_no, reference, dsid]                                  *)
(*   G.DBF row  [recno, etype, edate, per1, per2]                          *)
(*   E.DBF row  [gnum, eper, dsid, sequence, primary, role, witmemo]       *)
(***************************************************************************)
RECURSIVE LoadPersons(_, _)
LoadPersons(rows, acc) ==
  IF rows = <<>> THEN acc
  ELSE LET r == Head(rows) IN
       LoadPersons(Tail(rows),
         [dsid |-> IF acc.dsid = 1 /\ r.dsid > 0 THEN r.dsid ELSE acc.dsid,
          refn_to_perno |-> IF r.reference # ""
                            THEN DictPut(acc.refn_to_perno, r.reference, r.per_no)
                            ELSE acc.refn_to_perno])

IndexAdd(index, key, evt_data) ==
  DictPut(index, key, Append(DictGet(index, key, <<>>), evt_data))

\* (mutation of IndexEvents: an event is indexed under its first participant only)
RECURSIVE IndexEventsFirstSlot(_, _)
IndexEventsFirstSlot(rows, index) ==
  IF rows = <<>> THEN index
  ELSE LET r == Head(rows)
           evt_data == [recno |-> r.recno, edate |-> r.edate, per1 |-> r.per1, per2 |-> r.per2]
           i1 == IF r.per1 > 0 THEN IndexAdd(index, <<r.per1, r.etype>>, evt_data) ELSE index
       IN IndexEventsFirstSlot(Tail(rows), i1)

RECURSIVE IndexEvents(_, _)
IndexEvents(rows, index) ==
  IF rows = <<>> THEN index
  ELSE LET r == Head(rows)
           evt_data == [recno |-> r.recno, edate |-> r.edate, per1 |-> r.per1, per2 |-> r.per2]
           i1 == IF r.per1 > 0 THEN IndexAdd(index, <<r.per1, r.etype>>, evt_data) ELSE index
           i2 == IF r.per2 > 0 THEN IndexAdd(i1, <<r.per2, r.etype>>, evt_data) ELSE i1
       IN IndexEvents(Tail(rows), i2)

\* the dedup key (GNUM, EPER, ROLE, PRIMARY) of a stored row
RowKey(r) == <<r.gnum, r.eper, normalize_role_id(r.role), r.primary>>

\* the cache of existing witnesses
LoadWitnesses(rows) == {RowKey(rows[i]) : i \in {j \in 1..Len(rows) : rows[j].gnum > 0 /\ rows[j].eper > 0}}

\* the GEDCOM -> TMG map: `0 @I..` opens an individual, its `1 REFN` names the person
RECURSIVE MapGedcom(_, _, _, _)
MapGedcom(lines, gid, refn_to_perno, acc) ==
  IF lines = <<>> THEN acc
  ELSE LET l == Head(lines) IN
       IF l.lvl = 0 /\ StartsWithAtI(l.tag)
       THEN MapGedcom(Tail(lines), StripAt(l.tag), refn_to_perno, acc)
       ELSE IF l.lvl = 1 /\ l.tag = "REFN" /\ Truthy(gid)
       THEN MapGedcom(Tail(lines), None, refn_to_perno,
                      IF l.val \in DOMAIN refn_to_perno
                      THEN DictPut(acc, gid, refn_to_perno[l.val]) ELSE acc)
       ELSE MapGedcom(Tail(lines), gid, refn_to_perno, acc)

load_persons_and_events(p, g, e, lines) ==
  LET persons == LoadPersons(p, [dsid |-> 1, refn_to_perno |-> EmptyDict])
  IN [ged_to_perno |-> MapGedcom(lines, None, persons.refn_to_perno, EmptyDict),
      dsid |-> persons.dsid,
      events_index |-> IndexEvents(g, EmptyDict),
      existing_witnesses |-> LoadWitnesses(e)]

(***************************************************************************)
(* Pass 4: inject_witnesses, process_block, process_events, flush_event,   *)
(* insert_single_witness.                                                  *)
(***************************************************************************)
\* the blocks of inject_witnesses: a block starts at each `0 @I` / `0 @F` line
RECURSIVE SplitBlocks(_, _, _)
SplitBlocks(lines, block, acc) ==
  IF lines = <<>> THEN (IF block # <<>> THEN Append(acc, block) ELSE acc)
  ELSE IF Head(lines).lvl = 0
          /\ (StartsWithAtI(Head(lines).tag) \/ StartsWithAtF(Head(lines).tag))
       THEN SplitBlocks(Tail(lines), <<Head(lines)>>,
                        IF block # <<>> THEN Append(acc, block) ELSE acc)
       ELSE SplitBlocks(Tail(lines), Append(block, Head(lines)), acc)

\* the last `1 HUSB` / `1 WIFE` of a block: l.split('@')[1]
RECURSIVE LastRef(_, _, _)
LastRef(lines, tag, found) ==
  IF lines = <<>> THEN found
  ELSE LET l == Head(lines) IN
       LastRef(Tail(lines), tag,
               IF l.lvl = 1 /\ l.tag = tag /\ StripAt(l.val) # l.val THEN StripAt(l.val)
               ELSE found)

\* process_block: the person the events of the block are attached to (0: none)
BlockPerson(lines, ged_to_perno) ==
  LET head == Head(lines) IN
  IF head.lvl = 0 /\ StartsWithAtI(head.tag)
  THEN DictGet(ged_to_perno, StripAt(head.tag), 0)
  ELSE IF head.lvl = 0 /\ StartsWithAtF(head.tag)
  THEN LET husb_gid == LastRef(lines, "HUSB", None)
           wife_gid == LastRef(lines, "WIFE", None)
       IN IF Truthy(husb_gid) /\ husb_gid \in DOMAIN ged_to_perno THEN ged_to_perno[husb_gid]
          ELSE IF Truthy(wife_gid) /\ wife_gid \in DOMAIN ged_to_perno THEN ged_to_perno[wife_gid]
          ELSE 0
  ELSE 0

\* the event-type id process_events gives a level-1 line (0: none)
InjectEventId(tag, val, evt_ids, event_mapping) ==
  LET norm_tag == normalize(DictGet(event_mapping, normalize(tag), tag))
      eid == DictGet(evt_ids, norm_tag, 0)
  IN IF eid = 0 /\ tag \in GenericTags /\ val # ""
     THEN DictGet(evt_ids, normalize(DictGet(event_mapping, normalize(val), normalize(val))), 0)
     ELSE eid

NoEvent == [tag |-> None, eid |-> 0, date |-> None, witnesses |-> <<>>]

\* the loop of process_events: the event contexts handed to flush_event, in order
RECURSIVE ParseEvents(_, _, _, _, _)
ParseEvents(lines, cur, evt_ids, event_mapping, acc) ==
  IF lines = <<>> THEN Append(acc, cur)
  ELSE LET l == Head(lines)
           n == Len(cur.witnesses)
       IN
       IF l.lvl = 1 THEN
          ParseEvents(Tail(lines),
                      [tag |-> l.tag, eid |-> InjectEventId(l.tag, l.val, evt_ids, event_mapping),
                       date |-> None, witnesses |-> <<>>],
                      evt_ids, event_mapping, Append(acc, cur))
       ELSE IF l.lvl = 2 /\ l.tag = "DATE" THEN
          ParseEvents(Tail(lines), [cur EXCEPT !.date = l.val], evt_ids, event_mapping, acc)
       ELSE IF l.lvl = 2 /\ l.tag = "TYPE" /\ cur.tag \in GenericTags THEN
          LET eid == DictGet(evt_ids,
                       normalize(DictGet(event_mapping, normalize(l.val), normalize(l.val))), 0)
          IN ParseEvents(Tail(lines), IF eid # 0 THEN [cur EXCEPT !.eid = eid] ELSE cur,
                         evt_ids, event_mapping, acc)
       ELSE IF l.lvl = 2 /\ l.tag = "_SHAR" THEN
          ParseEvents(Tail(lines),
                      [cur EXCEPT !.witnesses = Append(@, [wit_ged |-> StripAt(l.val),
                                                           role |-> "Witness", note |-> ""])],
                      evt_ids, event_mapping, acc)
       ELSE IF l.lvl = 3 /\ n > 0 /\ l.tag = "ROLE" THEN
          ParseEvents(Tail(lines), [cur EXCEPT !.witnesses[n].role = l.val],
                      evt_ids, event_mapping, acc)
       ELSE IF l.lvl = 3 /\ n > 0 /\ l.tag = "NOTE" THEN
          ParseEvents(Tail(lines), [cur EXCEPT !.witnesses[n].note = @ \o " " \o l.val],
                      evt_ids, event_mapping, acc)
       ELSE ParseEvents(Tail(lines), cur, evt_ids, event_mapping, acc)

\* flush_event returns at once: `not evt_ctx['eid'] or not evt_ctx['witnesses']`
FlushReturnsAtOnce(evt_ctx) == evt_ctx.eid = 0 \/ evt_ctx.witnesses = <<>>

RECURSIVE EffectiveEvents(_)
EffectiveEvents(evs) ==
  IF evs = <<>> THEN <<>>
  ELSE IF FlushReturnsAtOnce(Head(evs)) THEN EffectiveEvents(Tail(evs))
       ELSE <<Head(evs)>> \o EffectiveEvents(Tail(evs))

\* the text of a character sequence
RECURSIVE Join(_)
Join(cs) == IF cs = <<>> THEN "" ELSE Head(cs) \o Join(Tail(cs))

\* re.search(r'\d{4}', s): the first four consecutive digits
RECURSIVE FirstFourDigits(_)
FirstFourDigits(cs) ==
  IF Len(cs) < 4 THEN None
  ELSE IF \A i \in 1..4 : cs[i] \in {"0", "1", "2", "3", "4", "5", "6", "7", "8", "9"}
       THEN Join(SubSeq(cs, 1, 4))
       ELSE FirstFourDigits(Tail(cs))

\* extract_year_tmg(edate_str); edate is the sequence of its characters
extract_year_tmg(edate) ==
  IF edate = <<>> THEN None
  ELSE IF Head(edate) = "1" /\ Len(edate) >= 5 THEN Join(SubSeq(edate, 2, 5))
  ELSE IF Head(edate) = "0" THEN FirstFourDigits(edate)
  ELSE None

\* the first word x with x.isdigit() and len(x) == 4
RECURSIVE FirstYear(_)
FirstYear(words) ==
  IF words = <<>> THEN None
  ELSE IF Len(Head(words)) = 4 /\ Head(words) \in {"1750", "1751", "0000"} THEN Head(words) ELSE FirstYear(Tail(words))

GedcomYear(date) ==
  LET \* date.split() for the GEDCOM dates of the model
      DateWords ==
        CASE date = "1750" -> <<"1750">>
          [] date = "ABT 1751" -> <<"ABT", "1751">>
          [] date = "10 OCT 1750" -> <<"10", "OCT", "1750">>
          [] date = "OCT" -> <<"OCT">>
          [] OTHER -> <<>>
  IN IF Truthy(date) THEN FirstYear(DateWords) ELSE None

\* (mutation of CandidateMatches: the years are not compared)
CandidateMatchesAny(cand, y_ged) == TRUE

\* the match test of flush_event for one candidate
CandidateMatches(cand, y_ged) ==
  LET y_tmg == extract_year_tmg(cand.edate)
  IN ~(Truthy(y_ged) /\ Truthy(y_tmg) /\ y_tmg # "0000" /\ y_tmg # y_ged)

\* (mutation of FindTarget: the last matching candidate wins)
RECURSIVE FindTargetLast(_, _)
FindTargetLast(candidates, y_ged) ==
  IF candidates = <<>> THEN 0
  ELSE LET later == FindTargetLast(Tail(candidates), y_ged)
       IN IF later # 0 THEN later
          ELSE IF CandidateMatches(Head(candidates), y_ged) THEN Head(candidates).recno
          ELSE 0

\* the first matching candidate's recno (0: none)
RECURSIVE FindTarget(_, _)
FindTarget(candidates, y_ged) ==
  IF candidates = <<>> THEN 0
  ELSE IF CandidateMatches(Head(candidates), y_ged) THEN Head(candidates).recno
       ELSE FindTarget(Tail(candidates), y_ged)

\* PER1/PER2 of the first candidate with the target's recno
RECURSIVE TargetPersons(_, _)
TargetPersons(candidates, gnum) ==
  IF candidates = <<>> THEN [per1 |-> 0, per2 |-> 0]
  ELSE IF Head(candidates).recno = gnum
       THEN [per1 |-> Head(candidates).per1, per2 |-> Head(candidates).per2]
       ELSE TargetPersons(Tail(candidates), gnum)

\* is_self = (wper == evt_per1 or (evt_per2 and wper == evt_per2))
IsSelf(wper, evt_per1, evt_per2) == wper = evt_per1 \/ (evt_per2 # 0 /\ wper = evt_per2)

\* (mutation of OrCode: the second operand is preferred)
OrCodeSecond(a, b) == IF b # 0 THEN b ELSE a

\* a or b on role codes
OrCode(a, b) == IF a # 0 THEN a ELSE b

\* (mutation of SelectCode: the default code is reported as the role's own code,
\* so the note gets no bracket prefix)
SelectCodeSilentDefault(role_codes, eid, role_ged_norm, is_self) ==
  LET roles_this_evt == DictGet(role_codes, eid, EmptyDict)
      role_map == DictGet(roles_this_evt, role_ged_norm, NoCodes)
      own == IF is_self THEN role_map.PRINCIPAL ELSE role_map.NORMAL
      witness_map == DictGet(roles_this_evt, "WITNESS", NoCodes)
      fallback == IF is_self THEN OrCode(witness_map.PRINCIPAL, witness_map.NORMAL)
                  ELSE OrCode(witness_map.NORMAL, witness_map.PRINCIPAL)
  IN IF own # 0 THEN [code |-> own, src |-> "role"]
     ELSE IF fallback # 0 THEN [code |-> fallback, src |-> "witness"]
     ELSE [code |-> DefaultCode, src |-> "role"]

\* (mutation of SelectCode: the codes of the first synchronized event type are
\* looked up, whatever the type of the event)
SelectCodeFirstType(role_codes, eid, role_ged_norm, is_self) ==
  LET first == CHOOSE e \in DOMAIN role_codes : \A f \in DOMAIN role_codes : e <= f
      roles_this_evt == IF DOMAIN role_codes = {} THEN EmptyDict ELSE role_codes[first]
      role_map == DictGet(roles_this_evt, role_ged_norm, NoCodes)
      own == IF is_self THEN role_map.PRINCIPAL ELSE role_map.NORMAL
      witness_map == DictGet(roles_this_evt, "WITNESS", NoCodes)
      fallback == IF is_self THEN OrCode(witness_map.PRINCIPAL, witness_map.NORMAL)
                  ELSE OrCode(witness_map.NORMAL, witness_map.PRINCIPAL)
  IN IF own # 0 THEN [code |-> own, src |-> "role"]
     ELSE IF fallback # 0 THEN [code |-> fallback, src |-> "witness"]
     ELSE [code |-> DefaultCode, src |-> "default"]

\* the role code of insert_single_witness and where it came from
SelectCode(role_codes, eid, role_ged_norm, is_self) ==
  LET roles_this_evt == DictGet(role_codes, eid, EmptyDict)
      role_map == DictGet(roles_this_evt, role_ged_norm, NoCodes)
      own == IF is_self THEN role_map.PRINCIPAL ELSE role_map.NORMAL
      witness_map == DictGet(roles_this_evt, "WITNESS", NoCodes)
      fallback == IF is_self THEN OrCode(witness_map.PRINCIPAL, witness_map.NORMAL)
                  ELSE OrCode(witness_map.NORMAL, witness_map.PRINCIPAL)
  IN IF own # 0 THEN [code |-> own, src |-> "role"]
     ELSE IF fallback # 0 THEN [code |-> fallback, src |-> "witness"]
     ELSE [code |-> DefaultCode, src |-> "default"]

\* (mutation of IsDuplicate: the anti-duplicate guard is not applied)
IsDuplicateNoGuard(check_key, existing) == FALSE

\* check_key in existing_witnesses
IsDuplicate(check_key, existing) == check_key \in existing

\* (mutation of NextSequence: the simulation's constant is used in a real run)
NextSequenceFirst(rows, gnum) == 1

\* max_seq + 1 over the rows of the event
NextSequence(rows, gnum) ==
  SeqMax([i \in 1..Len(rows) |-> IF rows[i].gnum = gnum THEN rows[i].sequence ELSE 0]) + 1

\* (mutation of insert_single_witness: a simulated injection is not added to
\* the cache)
InsertForgetsSimulated(wit_data, eid, gnum, role_codes, ged_to_perno, existing, rows, dsid, evt_per1, evt_per2, roles_db, dry_run) ==
  LET wper == DictGet(ged_to_perno, wit_data.wit_ged, 0)
      is_self == IsSelf(wper, evt_per1, evt_per2)
      role_ged_norm == normalize(wit_data.role)
      role_info == RoleInfo(roles_db, role_ged_norm, wit_data.role)
      sel == SelectCode(role_codes, eid, role_ged_norm, is_self)
      memo == IF sel.src = "role" THEN wit_data.note
              ELSE "[" \o role_info.eng \o "] " \o wit_data.note
      role_formatted == Fmt05(sel.code)
      check_key == <<gnum, wper, normalize_role_id(StrVal(role_formatted)), is_self>>
      new_seq == IF dry_run THEN 1 ELSE NextSequence(rows, gnum)
      row == [gnum |-> gnum, eper |-> wper, dsid |-> dsid, sequence |-> new_seq,
              primary |-> is_self, role |-> StrVal(role_formatted), witmemo |-> memo]
      info == [role |-> role_ged_norm, eid |-> eid, gnum |-> gnum, wper |-> wper,
               is_self |-> is_self, code |-> sel.code, src |-> sel.src,
               note |-> wit_data.note, memo |-> memo, key |-> check_key]
  IN IF wper = 0 THEN
        [res |-> "error", rows |-> rows, existing |-> existing,
         info |-> [info EXCEPT !.code = 0, !.src = "unresolved", !.memo = ""]]
     ELSE IF IsDuplicate(check_key, existing) THEN
        [res |-> "skip", rows |-> rows, existing |-> existing, info |-> info]
     ELSE
        [res |-> IF is_self THEN "principal" ELSE "ok",
         rows |-> IF dry_run THEN rows ELSE Append(rows, row),
         existing |-> IF dry_run THEN existing ELSE existing \cup {check_key},
         info |-> info]

\* insert_single_witness: the result, the row and the key it appends (if any)
insert_single_witness(wit_data, eid, gnum, role_codes, ged_to_perno, existing, rows, dsid, evt_per1, evt_per2, roles_db, dry_run) ==
  LET wper == DictGet(ged_to_perno, wit_data.wit_ged, 0)
      is_self == IsSelf(wper, evt_per1, evt_per2)
      role_ged_norm == normalize(wit_data.role)
      role_info == RoleInfo(roles_db, role_ged_norm, wit_data.role)
      sel == SelectCode(role_codes, eid, role_ged_norm, is_self)
      memo == IF sel.src = "role" THEN wit_data.note
              ELSE "[" \o role_info.eng \o "] " \o wit_data.note
      role_formatted == Fmt05(sel.code)
      check_key == <<gnum, wper, normalize_role_id(StrVal(role_formatted)), is_self>>
      new_seq == IF dry_run THEN 1 ELSE NextSequence(rows, gnum)
      row == [gnum |-> gnum, eper |-> wper, dsid |-> dsid, sequence |-> new_seq,
              primary |-> is_self, role |-> StrVal(role_formatted), witmemo |-> memo]
      info == [role |-> role_ged_norm, eid |-> eid, gnum |-> gnum, wper |-> wper,
               is_self |-> is_self, code |-> sel.code, src |-> sel.src,
               note |-> wit_data.note, memo |-> memo, key |-> check_key]
  IN IF wper = 0 THEN
        [res |-> "error", rows |-> rows, existing |-> existing,
         info |-> [info EXCEPT !.code = 0, !.src = "unresolved", !.memo = ""]]
     ELSE IF IsDuplicate(check_key, existing) THEN
        [res |-> "skip", rows |-> rows, existing |-> existing, info |-> info]
     ELSE
        [res |-> IF is_self THEN "principal" ELSE "ok",
         rows |-> IF dry_run THEN rows ELSE Append(rows, row),
         existing |-> existing \cup {check_key},
         info |-> info]

(***************************************************************************)
(* The mapping file and its loading (load_mapping, inject_roles_mode).     *)
(* A mapping file is [events: key -> tmg_name, roles: key -> [eng, fra]];  *)
(* fra = None stands for an entry without 'fra'.                           *)
(***************************************************************************)
LoadEvents(events) ==
  LET kept == {k \in DOMAIN events : events[k] # ""}
  IN [n \in {normalize(k) : k \in kept} |->
        events[CHOOSE k \in kept : normalize(k) = n]]

LoadRoles(roles) ==
  LET kept == {k \in DOMAIN roles : roles[k].eng # ""}
  IN [n \in {normalize(k) : k \in kept} |->
        LET v == roles[CHOOSE k \in kept : normalize(k) = n]
        IN [eng |-> v.eng, fra |-> IF v.fra = None THEN v.eng ELSE v.fra]]

\* (mutation of MappingLoads: only the missing file is refused)
MappingLoadsUnparsed(status) == status # "absent"

\* whether json.load and the two loops get through
MappingLoads(status) == status = "ok"

(***************************************************************************)
(* sentence_injector.py: the grammar as a structured value.                *)
(* A Python dict is a sequence of key/value pairs with distinct keys, in   *)
(* insertion order.  Grammar texts use the tokens above and                *)
(*   LF        "\n"                  SP         " "                        *)
(*   R s       "[R=<s>]"                                                   *)
(*   PHRASE s  a sentence: it may hold "[P]", "[R:x]", "<[D]>", but no     *)
(*             "[R=", no "[L=" and no blank at either end                  *)
(* A label or a phrase is the sequence of the tokens of its text.          *)
(***************************************************************************)
Pair(k, v) == [k |-> k, v |-> v]
OdKeys(d) == {d[i].k : i \in 1..Len(d)}
OdGet(d, k) == d[CHOOSE i \in 1..Len(d) : d[i].k = k].v

\* d[k] = v
OdSet(d, k, v) ==
  IF k \in OdKeys(d)
  THEN [i \in 1..Len(d) |-> IF d[i].k = k THEN Pair(k, v) ELSE d[i]]
  ELSE Append(d, Pair(k, v))

\* str.upper() on a language name
Upper(s) ==
  CASE s = "english" -> "ENGLISH"
    [] s = "englishuk" -> "ENGLISHUK"
    [] s = "french" -> "FRENCH"
    [] OTHER -> s

\* sorted(langs), over the language names of the model
SortedLangs(S) ==
  LET LangOrder == <<"ENGLISH", "ENGLISHUK", "FRENCH", "english", "englishuk", "french">>
  IN SelectSeq(LangOrder, LAMBDA l : l \in S)

\* sorted(roles_data.keys())
RECURSIVE SortedIds(_)
SortedIds(S) ==
  IF S = {} THEN <<>>
  ELSE LET m == CHOOSE x \in S : \A y \in S : x <= y IN <<m>> \o SortedIds(S \ {m})

\* "".join(parts)
RECURSIVE Flatten(_)
Flatten(parts) == IF parts = <<>> THEN <<>> ELSE Head(parts) \o Flatten(Tail(parts))

\* "\r\n"
CRLF == <<CRTok, Tok("LF", "")>>

\* str.strip() on the tokens of a text
Strip(toks) ==
  LET IsBlank(t) == t.k \in {"CR", "LF", "SP"}
      first == IF \E i \in 1..Len(toks) : ~IsBlank(toks[i])
               THEN CHOOSE i \in 1..Len(toks) :
                      ~IsBlank(toks[i]) /\ \A j \in 1..(i - 1) : IsBlank(toks[j])
               ELSE Len(toks) + 1
      last == IF \E i \in 1..Len(toks) : ~IsBlank(toks[i])
              THEN CHOOSE i \in 1..Len(toks) :
                     ~IsBlank(toks[i]) /\ \A j \in (i + 1)..Len(toks) : IsBlank(toks[j])
              ELSE 0
  IN SubSeq(toks, first, last)

\* if rid not in roles_data: roles_data[rid] = {'role': {}, 'phrase': {}}
EnsureRole(roles_data, rid) ==
  IF rid \in OdKeys(roles_data) THEN roles_data
  ELSE Append(roles_data, Pair(rid, [role |-> <<>>, phrase |-> <<>>]))

\* roles_data[rid][part][lang] = text, part being 'role' or 'phrase'
SetRoleText(roles_data, rid, part, lang, text) ==
  LET d == OdGet(roles_data, rid)
  IN OdSet(roles_data, rid, [d EXCEPT ![part] = OdSet(@, lang, text)])

\* the longest prefix of toks made of tokens of the kinds in `kinds`
RECURSIVE Run(_, _)
Run(toks, kinds) ==
  IF toks # <<>> /\ Head(toks).k \in kinds THEN <<Head(toks)>> \o Run(Tail(toks), kinds) ELSE <<>>

\* regex_role and regex_lbl over the label section: each [L=lang] that is
\* followed by at least one character other than "[" gives the role of the
\* last [RL=n] a label, stripped
RECURSIVE ParseRoleBlocks(_, _, _)
ParseRoleBlocks(toks, rid, roles_data) ==
  IF toks = <<>> THEN roles_data
  ELSE LET t == Head(toks)
           run == Run(Tail(toks), {"TXT", "SP", "CR", "LF"})
       IN IF t.k = "RL"
          THEN ParseRoleBlocks(Tail(toks), IntOf(t.s), EnsureRole(roles_data, IntOf(t.s)))
          ELSE IF t.k = "L" /\ rid >= 0 /\ run # <<>>
          THEN ParseRoleBlocks(Tail(toks), rid,
                               SetRoleText(roles_data, rid, "role", Upper(t.s), Strip(run)))
          ELSE ParseRoleBlocks(Tail(toks), rid, roles_data)

\* the language blocks and regex_phrase: each [R=n] under a language (ENGLISH
\* is filed as ENGLISHUK) gives role n the text up to the next [R= or [L=,
\* stripped, when it is not empty
RECURSIVE ParsePhraseBlocks(_, _, _)
ParsePhraseBlocks(toks, current_lang, roles_data) ==
  IF toks = <<>> THEN roles_data
  ELSE LET t == Head(toks)
           text == Strip(Run(Tail(toks), {"TXT", "SP", "CR", "LF", "PHRASE", "RL",
                                          "LABELS", "ENDLABELS"}))
       IN IF t.k = "L"
          THEN ParsePhraseBlocks(Tail(toks),
                                 IF Upper(t.s) = "ENGLISH" THEN "ENGLISHUK" ELSE Upper(t.s),
                                 roles_data)
          ELSE IF t.k = "R" /\ current_lang # None /\ text # <<>>
          THEN ParsePhraseBlocks(Tail(toks), current_lang,
                 SetRoleText(EnsureRole(roles_data, IntOf(t.s)), IntOf(t.s), "phrase",
                             current_lang, text))
          ELSE ParsePhraseBlocks(Tail(toks), current_lang, roles_data)

parse_tsentence(tsentence_str) ==
  LET labelled == IF HasTok(tsentence_str, "LABELS") /\ HasTok(tsentence_str, "ENDLABELS")
                  THEN ParseRoleBlocks(LabelsContent(tsentence_str), -1, <<>>)
                  ELSE <<>>
      \* tsentence_str.split('[:LABELS]')[1], or the whole text without [:LABELS]
      rest == SubSeq(tsentence_str, FirstTok(tsentence_str, "ENDLABELS") + 1,
                     Len(tsentence_str))
      phrases_section == IF HasTok(tsentence_str, "ENDLABELS")
                         THEN SubSeq(rest, 1, FirstTok(rest, "ENDLABELS") - 1)
                         ELSE tsentence_str
  IN ParsePhraseBlocks(phrases_section, None, labelled)

rebuild_tsentence(roles_data) ==
  LET rids == SortedIds(OdKeys(roles_data))
      \* "[RL=%05d]" and one "[L=lang]text" per language, sorted
      rl_block(rid, role) ==
        LET langs == SortedLangs(OdKeys(role))
        IN <<Tok("RL", Fmt05(rid))>>
           \o Flatten([i \in 1..Len(langs) |->
                         <<Tok("L", langs[i])>> \o OdGet(role, langs[i])])
      labels_part ==
        <<Tok("LABELS", "")>> \o CRLF
        \o Flatten([i \in 1..Len(rids) |->
                      LET data == OdGet(roles_data, rids[i])
                      IN IF data.role # <<>> THEN rl_block(rids[i], data.role) \o CRLF
                         ELSE <<>>])
        \o <<Tok("ENDLABELS", "")>> \o CRLF
      \* the block a phrase is written in
      BlockLang(lang) == IF lang = "ENGLISH" THEN "ENGLISHUK" ELSE lang
      \* phrases_blocks[lang]: the "[R=%05d]text" of every phrase filed under
      \* lang, roles in sorted order, the phrases of a role in the order of its dict
      OfRole(rid, lang) ==
        LET ph == OdGet(roles_data, rid).phrase
        IN Flatten([j \in 1..Len(ph) |->
                      IF BlockLang(ph[j].k) = lang
                      THEN <<Tok("R", Fmt05(rid))>> \o ph[j].v ELSE <<>>])
      phrases_block(lang) == Flatten([i \in 1..Len(rids) |-> OfRole(rids[i], lang)])
      blocks_langs == UNION {{BlockLang(k) : k \in OdKeys(roles_data[i].v.phrase)} :
                               i \in 1..Len(roles_data)}
      all_langs == IF "ENGLISHUK" \notin blocks_langs /\ "ENGLISH" \notin blocks_langs
                   THEN blocks_langs \cup {"ENGLISHUK"} ELSE blocks_langs
      langs == SortedLangs(all_langs)
      phrases_part ==
        Flatten([i \in 1..Len(langs) |->
                   <<Tok("L", langs[i])>> \o phrases_block(langs[i]) \o CRLF])
  IN labels_part \o phrases_part

(***************************************************************************)
(* State.                                                                  *)
(***************************************************************************)
VARIABLES
  inp,                 \* the inputs of the run: mapping file, GEDCOM, tables, mode
  run,                 \* number of the current run on these inputs
  pc,                  \* the stage the run is at
  stages,              \* the stages this run has gone through
  EVENT_MAPPING, ROLES_DB,
  T, E,                \* T.DBF and E.DBF as they are on disk
  role_usage,          \* result of scan_role_usage
  evt_ids, role_codes, \* results of update_tmg_structure
  created,             \* etype -> codes allocated by this run, in order
  modifications,       \* etypes written by this run
  ged_to_perno, dsid, events_index, existing_witnesses,
  blocks,              \* GEDCOM blocks not yet processed
  evq,                 \* events of the current block not yet flushed
  cur,                 \* the event being injected: pper, eid, gnum, per1, per2
  witq,                \* witnesses of the current event not yet inserted
  stats,               \* the tally
  outcomes,            \* the result of every counted reference, in order
  lastIns,             \* what the last insert_single_witness decided
  hist,                \* what each finished run left: tally, outcomes, codes
  gram,                \* the grammar pair: the value, the texts serialized from it
  simulated            \* what the simulation reported, once a real run follows it

vars == <<inp, run, pc, stages, EVENT_MAPPING, ROLES_DB, T, E, role_usage, evt_ids,
          role_codes, created, modifications, ged_to_perno, dsid, events_index,
          existing_witnesses, blocks, evq, cur, witq, stats, outcomes, lastIns, hist,
          gram, simulated>>

dbVars == <<T, E>>
mapVars == <<EVENT_MAPPING, ROLES_DB>>
syncVars == <<evt_ids, role_codes, created, modifications>>
loadVars == <<ged_to_perno, dsid, events_index, existing_witnesses>>
injVars == <<blocks, evq, cur, witq, stats, outcomes, lastIns>>

ZeroStats == [ok |-> 0, principal |-> 0, skip |-> 0, error |-> 0]
NoCur == [pper |-> 0, eid |-> 0, gnum |-> 0, per1 |-> 0, per2 |-> 0]
NoIns == [res |-> "none"]
NoSimulation == [done |-> FALSE, stats |-> ZeroStats, outcomes |-> <<>>]

DRY_RUN == inp.dry_run

(***************************************************************************)
(* Inputs: the mapping files, GEDCOM files and tables the runs start from. *)
(***************************************************************************)
\* ---- mapping files
BaseEvents == [k \in {"MARR", "BIRT"} |-> IF k = "MARR" THEN "Marriage" ELSE "Birth"]

BaseRoles ==
  [k \in {"buyer", "Acheteur", "Witness"} |->
     CASE k = "buyer" -> [eng |-> "Buyer", fra |-> "Acheteur"]
       [] k = "Acheteur" -> [eng |-> "Buyer", fra |-> "Acheteur"]
       [] k = "Witness" -> [eng |-> "Witness", fra |-> "Témoin"]]

MappingBase == [events |-> BaseEvents, roles |-> BaseRoles]
\* a mapping that also maps the generic tag and DIV
MappingWide ==
  [events |-> [k \in {"MARR", "BIRT", "EVEN", "DIV"} |->
                 CASE k = "MARR" -> "Marriage" [] k = "BIRT" -> "Birth"
                   [] k = "EVEN" -> "Deed" [] k = "DIV" -> "Divorce"],
   roles |-> BaseRoles]

\* the tables the module loaded when it was imported (load_mapping at line 154)
ImportedEvents == LoadEvents([k \in {"MARR"} |-> "Marriage"])
ImportedRoles == LoadRoles([k \in {"Witness"} |-> [eng |-> "Witness", fra |-> None]])

\* ---- $.DBF
Persons == << [per_no |-> 1, reference |-> "R1", dsid |-> 1],
              [per_no |-> 2, reference |-> "R2", dsid |-> 1],
              [per_no |-> 3, reference |-> "R3", dsid |-> 1] >>

\* ---- T.DBF
PhraseTail == <<CRTok, Tok("L", "ENGLISHUK"), Tok("PHRASE", "[R=00001][P] <was|and [PO] were> <[M]> <[D]> <[L]>")>>

LabelEntry(code, eng, fra) ==
  <<Tok("RL", code), Tok("L", "ENGLISH"), Tok("TXT", eng),
    Tok("L", "FRENCH"), Tok("TXT", fra), CRTok>>

StdLabels == LabelEntry("00001", "Principal", "Principal")
             \o LabelEntry("00002", "Witness", "Témoin")

SentStd == <<Tok("LABELS", ""), CRTok>> \o StdLabels \o <<Tok("ENDLABELS", "")>> \o PhraseTail
SentBuyer == <<Tok("LABELS", ""), CRTok>> \o StdLabels \o LabelEntry("00003", "Buyer", "Acheteur")
             \o <<Tok("ENDLABELS", "")>> \o PhraseTail
SentNone == <<>>

TRec(num, name, sent, prin, wit) ==
  [etypenum |-> num, etypename |-> name, tsentence |-> sent, prinrole |-> prin, witrole |-> wit]

\* Marriage = 1, Birth = 2, Deed = 3 (, a fourth custom type)
TableT(sent1, prin1, wit1) ==
  << TRec(1, "Marriage", sent1, prin1, wit1),
     TRec(2, "Birth", SentStd, TRUE, TRUE),
     TRec(3, "Deed", SentNone, FALSE, FALSE) >>

TableTWith(name4) == TableT(SentStd, FALSE, TRUE) \o <<TRec(4, name4, SentStd, FALSE, FALSE)>>

\* ---- G.DBF
GRec(recno, etype, edate, per1, per2) ==
  [recno |-> recno, etype |-> etype, edate |-> edate, per1 |-> per1, per2 |-> per2]

TableG == << GRec(1, 1, <<>>, 1, 2), GRec(2, 2, <<>>, 1, 0),
             GRec(3, 3, <<>>, 1, 0), GRec(4, 4, <<>>, 1, 0) >>

\* ---- E.DBF
ERec(gnum, eper, seq, primary, role, memo) ==
  [gnum |-> gnum, eper |-> eper, dsid |-> 1, sequence |-> seq, primary |-> primary,
   role |-> role, witmemo |-> memo]

\* person 3 already witnesses the marriage, the role stored without padding
TableEOld == << ERec(1, 3, 1, FALSE, StrVal("2"), "") >>
\* person 3 is already a Buyer of the marriage (role stored as a number)
TableEBuyer == << ERec(1, 3, 1, FALSE, IntVal(3), ""),
                  ERec(1, 2, 2, TRUE, StrVal("00001"), "") >>

\* ---- GEDCOM
SharLines(sh) ==
  <<Line(2, "_SHAR", AtRef(sh.id))>>
  \o (IF sh.role # "" THEN <<Line(3, "ROLE", sh.role)>> ELSE <<>>)
  \o (IF sh.note # "" THEN <<Line(3, "NOTE", sh.note)>> ELSE <<>>)

RECURSIVE SharsLines(_)
SharsLines(shars) == IF shars = <<>> THEN <<>>
                     ELSE SharLines(Head(shars)) \o SharsLines(Tail(shars))

EventLines(ev) ==
  <<Line(1, ev.tag, ev.val)>>
  \o (IF ev.type # "" THEN <<Line(2, "TYPE", ev.type)>> ELSE <<>>)
  \o (IF ev.date # "" THEN <<Line(2, "DATE", ev.date)>> ELSE <<>>)
  \o SharsLines(ev.shars)

IndiLines(id, refn, evs) ==
  <<Line(0, AtRef(id), "INDI")>>
  \o (IF refn # "" THEN <<Line(1, "REFN", refn)>> ELSE <<>>)
  \o evs

\* individuals I1..I3 carry a REFN, I4 does not; F1 is the family of I1 and I2;
\* the event ev is declared in the record of `owner`
Gedcom(owner, ev) ==
  LET at(id) == IF owner = id THEN EventLines(ev) ELSE <<>>
  IN IndiLines("I1", "R1", at("I1")) \o IndiLines("I2", "R2", at("I2"))
     \o IndiLines("I3", "R3", at("I3")) \o IndiLines("I4", "", at("I4"))
     \o <<Line(0, AtRef("F1"), "FAM"), Line(1, "HUSB", AtRef("I1")),
          Line(1, "WIFE", AtRef("I2"))>> \o at("F1")

Shar(id, role, note) == [id |-> id, role |-> role, note |-> note]
Event(tag, val, type, date, shars) ==
  [tag |-> tag, val |-> val, type |-> type, date |-> date, shars |-> shars]

\* references to a participant (I1, I2), to another person (I3) and to a person
\* the database does not hold (I4); two role texts of one label, or no ROLE line
SharChoices ==
  {Shar(id, role, "") : id \in {"I1", "I3"}, role \in {"", "buyer", "Acheteur"}}
    \cup {Shar("I2", "", ""), Shar("I4", "", "")}

\* the sequences of at most n witness references
RECURSIVE SharSeqs(_)
SharSeqs(n) == IF n = 0 THEN {<<>>}
               ELSE LET shorter == SharSeqs(n - 1)
                    IN shorter \cup {Append(q, sh) : q \in {x \in shorter : Len(x) = n - 1},
                                                     sh \in SharChoices}

Input(mapping, status, gedcom, t, g, e, missing, dry) ==
  [mapping |-> mapping, mapping_status |-> status, gedcom |-> gedcom,
   P |-> Persons, T |-> t, G |-> g, E |-> e, missing |-> missing, dry_run |-> dry]

\* a marriage with up to MaxShars references, in an individual or the family
\* record, against three states of the database
InputsRoles ==
  { Input(MappingBase, "ok", Gedcom(owner, Event("MARR", "", "", "", shars)),
          db.t, TableG, db.e, {}, db.dry) :
      owner \in {"I1", "F1"}, shars \in SharSeqs(MaxShars),
      db \in { [t |-> TableT(SentStd, FALSE, TRUE), e |-> <<>>, dry |-> FALSE],
               [t |-> TableT(SentStd, FALSE, TRUE), e |-> <<>>, dry |-> TRUE],
               [t |-> TableT(SentBuyer, TRUE, TRUE), e |-> TableEBuyer, dry |-> FALSE],
               [t |-> TableT(SentNone, FALSE, FALSE), e |-> TableEOld, dry |-> FALSE] } }

\* one event with one reference, over the forms an event line can take
InputsEvents ==
  { Input(mapping, "ok",
          Gedcom(owner, Event(tv[1], tv[2], type, "", <<Shar("I3", "seller", "")>>)),
          t, TableG, <<>>, {}, FALSE) :
      mapping \in {MappingBase, MappingWide},
      owner \in {"I1", "I4"},
      tv \in {<<"MARR", "">>, <<"BIRT", "">>, <<"DIV", "">>,
              <<"EVEN", "">>, <<"EVEN", "Deed">>, <<"EVEN", "Sale">>},
      type \in {"", "Deed", "Sale"},
      t \in {TableT(SentStd, FALSE, TRUE), TableTWith("Sale"), TableTWith("Divorce")} }

\* runs that cannot start or cannot finish: mapping file or tables missing
InputsAbort ==
  { Input(MappingBase, status,
          Gedcom("I1", Event("MARR", "", "", "", <<Shar("I3", "buyer", "")>>)),
          TableT(SentStd, FALSE, TRUE), TableG, <<>>, missing, dry) :
      status \in {"ok", "absent", "invalid", "badshape"},
      missing \in {{}, {"T"}, {"$"}, {"G"}, {"E"}},
      dry \in BOOLEAN }

\* the same persons with I3 as the last individual before the family record,
\* the event declared in the family record
GedcomFamily(ev) ==
  IndiLines("I1", "R1", <<>>) \o IndiLines("I2", "R2", <<>>)
  \o IndiLines("I4", "", <<>>) \o IndiLines("I3", "R3", <<>>)
  \o <<Line(0, AtRef("F1"), "FAM"), Line(1, "HUSB", AtRef("I1")),
       Line(1, "WIFE", AtRef("I2"))>> \o EventLines(ev)

\* a marriage whose reference with ROLE buyer and a NOTE line comes after
\* references with the default role, so that the code of the role, a code of
\* Witness or the default code is used
InputsFallback ==
  LET
    FallbackShars ==
      { <<Shar("I1", "", "seen"), Shar("I3", "", ""), Shar("I2", "buyer", "deed")>>,
        <<Shar("I1", "", ""), Shar("I2", "buyer", "deed")>>,
        <<Shar("I3", "", ""), Shar("I2", "buyer", "deed")>>,
        <<Shar("I2", "buyer", "deed")>>,
        <<Shar("I3", "buyer", "deed")>> }

    FallbackSharsFamily ==
      { <<Shar("I3", "", ""), Shar("I1", "", ""), Shar("I3", "buyer", "deed")>>,
        <<Shar("I1", "", ""), Shar("I3", "buyer", "deed")>>,
        <<Shar("I3", "", ""), Shar("I3", "buyer", "deed")>>,
        <<Shar("I3", "buyer", "deed")>> }
  IN
  { Input(MappingBase, "ok", ged, t, TableG, <<>>, {}, FALSE) :
      ged \in {Gedcom("I1", Event("MARR", "", "", "", shars)) : shars \in FallbackShars}
              \cup {GedcomFamily(Event("MARR", "", "", "", shars)) :
                      shars \in FallbackSharsFamily},
      t \in {TableT(SentStd, FALSE, TRUE), TableT(SentNone, FALSE, FALSE)} }

\* ---- dated events
\* EDATE values, as character sequences: precise dates "1YYYYMMDD" of 1750, of
\* 1751 and of year 0000, irregular dates "0..." with and without four digits,
\* and the empty field
EDate1750 == <<"1", "1", "7", "5", "0", "1", "0", "1", "0">>
EDate1751 == <<"1", "1", "7", "5", "1", "0", "1", "0", "1">>
EDateZero == <<"1", "0", "0", "0", "0", "0", "0", "0", "0">>
EDateAbout1751 == <<"0", "(", "1", "7", "5", "1", ")">>
EDates == {<<>>, EDate1750, EDate1751, EDateZero, EDateAbout1751,
           <<"0", "(", "?", ")">>}

\* two marriages of persons 1 and 2, stored in this order, and a birth
TableGDated(d1, d2) ==
  << GRec(5, 1, d1, 1, 2), GRec(2, 2, <<>>, 1, 0), GRec(1, 1, d2, 2, 1) >>

\* the DATE values of the event in the file

\* a dated marriage of I1 with two references against two stored marriages
InputsDates ==
  { Input(MappingBase, "ok",
          Gedcom("I1", Event("MARR", "", "", date,
                             <<Shar("I3", "", ""), Shar("I1", "", "")>>)),
          TableT(SentStd, FALSE, TRUE), TableGDated(d1, d2), <<>>, {}, FALSE) :
      date \in {"", "1750", "ABT 1751", "10 OCT 1750", "OCT"}, d1 \in EDates, d2 \in EDates }

\* ---- several events and records
\* the events evs1 are declared in the record of I1 and evs2 in that of I2
RECURSIVE EventsLines(_)
EventsLines(evs) == IF evs = <<>> THEN <<>>
                    ELSE EventLines(Head(evs)) \o EventsLines(Tail(evs))

GedcomMulti(evs1, evs2) ==
  IndiLines("I1", "R1", EventsLines(evs1)) \o IndiLines("I2", "R2", EventsLines(evs2))
  \o IndiLines("I3", "R3", <<>>) \o IndiLines("I4", "", <<>>)
  \o <<Line(0, AtRef("F1"), "FAM"), Line(1, "HUSB", AtRef("I1")),
       Line(1, "WIFE", AtRef("I2"))>>

Marr(shars) == Event("MARR", "", "", "", shars)
Birt(shars) == Event("BIRT", "", "", "", shars)

\* one role in two event types, as principal in one and by a third party in the
\* other; an unresolved reference followed by other references, another event
\* and another record; the marriage declared by both spouses
InputsMulti ==
  LET MultiFiles ==
      { GedcomMulti(<<Marr(<<Shar("I1", "buyer", "")>>), Birt(<<Shar("I3", "buyer", "")>>)>>, <<>>),
        GedcomMulti(<<Marr(<<Shar("I3", "buyer", "")>>), Birt(<<Shar("I1", "buyer", "")>>)>>, <<>>),
        GedcomMulti(<<Marr(<<Shar("I4", "", ""), Shar("I3", "", "")>>),
                      Birt(<<Shar("I3", "seller", "")>>)>>,
                    <<Marr(<<Shar("I3", "buyer", "")>>)>>),
        GedcomMulti(<<Marr(<<Shar("I3", "buyer", "")>>)>>, <<Marr(<<Shar("I3", "buyer", "")>>)>>),
        GedcomMulti(<<Marr(<<Shar("I3", "seller", "")>>), Birt(<<Shar("I3", "seller", "")>>)>>,
                    <<>>) }
  IN
  { Input(MappingBase, "ok", ged, t, TableG, <<>>, {}, dry) :
      ged \in MultiFiles,
      t \in {TableT(SentStd, FALSE, TRUE), TableT(SentBuyer, TRUE, TRUE),
             TableT(SentNone, FALSE, FALSE)},
      dry \in BOOLEAN }

\* ---- a grammar text that ends with a line terminator after its last phrase,
\* as rebuild_tsentence of sentence_injector.py writes it
InputsGrammar ==
  { Input(MappingBase, "ok", Gedcom("I1", Marr(<<Shar("I3", "buyer", "")>>)),
          TableT(SentStd \o <<CRTok>>, FALSE, TRUE), TableG, <<>>, {}, dry) : dry \in BOOLEAN }

\* ---- witness rows stored before the run, some of them without an event or
\* without a person, against references that repeat them
TableEGaps == TableEBuyer \o << ERec(0, 3, 1, FALSE, StrVal("00002"), ""),
                                ERec(1, 0, 3, FALSE, StrVal("00002"), "") >>

InputsCache ==
  LET CacheShars ==
        { <<Shar("I3", "buyer", ""), Shar("I3", "", "")>>,
          <<Shar("I3", "", ""), Shar("I3", "", "")>>,
          <<Shar("I2", "", ""), Shar("I3", "buyer", "")>> }
  IN
  { Input(MappingBase, "ok", Gedcom("I1", Marr(shars)),
          TableT(SentBuyer, TRUE, TRUE), TableG, e, {}, dry) :
      shars \in CacheShars, e \in {TableEBuyer, TableEGaps, TableEOld}, dry \in BOOLEAN }

Inputs == InputsRoles \cup InputsEvents \cup InputsAbort \cup InputsFallback \cup InputsDates \cup InputsMulti \cup InputsGrammar \cup InputsCache

(***************************************************************************)
(* The grammar pair of sentence_injector.py on its own: a structured value *)
(* is serialized, the text is parsed, and the value parsed is serialized   *)
(* again.                                                                  *)
(***************************************************************************)
\* the values rebuild_tsentence is given: one or two roles, each with a label
\* dict (none, one language, two languages) and a phrase dict (none, as
\* parse_tsentence files them, as the generator writes them, a phrase under
\* each English name), and the values parsed from two stored texts
GrammarInputs ==
  LET LabelWitness == <<Tok("TXT", "Witness")>>
      LabelTemoin == <<Tok("TXT", "Témoin")>>
      LabelBuyer == <<Tok("TXT", "Principal Buyer")>>
      PhraseWitness ==
        <<Tok("PHRASE", "[W] witnessed the marriage of [P] <and [PO]> <[D]> <[L]>")>>
      PhraseTemoin ==
        <<Tok("PHRASE", "[W] était témoin au mariage de [P] <et [PO]> <[D]> <[L]>")>>
      PhrasePrincipal == <<Tok("PHRASE", "[P] <was|and [PO] were> married <[D]> <[L]>")>>
      RoleDicts ==
        { <<>>,
          <<Pair("ENGLISH", LabelWitness)>>,
          <<Pair("FRENCH", LabelTemoin), Pair("ENGLISH", LabelWitness)>>,
          <<Pair("ENGLISH", LabelBuyer), Pair("ENGLISHUK", LabelBuyer)>> }
      PhraseDicts ==
        { <<>>,
          <<Pair("ENGLISHUK", PhrasePrincipal)>>,
          <<Pair("FRENCH", PhraseTemoin)>>,
          <<Pair("ENGLISH", PhraseWitness), Pair("FRENCH", PhraseTemoin)>>,
          <<Pair("ENGLISH", PhraseWitness), Pair("ENGLISHUK", PhrasePrincipal)>> }
      RoleEntries == {[role |-> r, phrase |-> p] : r \in RoleDicts, p \in PhraseDicts}
      \* a grammar as T.DBF can hold it: the English label of role 2 is a blank
      SentBlankLabel ==
        <<Tok("LABELS", "")>> \o CRLF
        \o <<Tok("RL", "00001"), Tok("L", "ENGLISH"), Tok("TXT", "Principal")>> \o CRLF
        \o <<Tok("RL", "00002"), Tok("L", "ENGLISH"), Tok("SP", ""),
             Tok("L", "FRENCH"), Tok("TXT", "Témoin")>> \o CRLF
        \o <<Tok("ENDLABELS", "")>> \o CRLF
        \o <<Tok("L", "ENGLISHUK"), Tok("R", "00001")>> \o PhrasePrincipal \o CRLF
      \* a grammar with lower-case language names, blanks around a label, an
      \* unpadded code and an empty phrase
      SentStored ==
        <<Tok("LABELS", "")>> \o CRLF
        \o <<Tok("RL", "00001"), Tok("L", "english"), Tok("TXT", "Principal"),
             Tok("L", "french"), Tok("SP", ""), Tok("TXT", "Principal"), Tok("SP", "")>>
        \o CRLF
        \o <<Tok("RL", "2"), Tok("L", "ENGLISH"), Tok("TXT", "Witness")>> \o CRLF
        \o <<Tok("ENDLABELS", "")>> \o CRLF
        \o <<Tok("L", "ENGLISH"), Tok("R", "00001"), Tok("SP", "")>> \o PhrasePrincipal
        \o <<Tok("R", "00002")>> \o CRLF
        \o <<Tok("L", "FRENCH"), Tok("R", "2")>> \o PhraseTemoin \o CRLF
  IN {<<Pair(2, e)>> : e \in RoleEntries}
     \cup {<<Pair(2, e2), Pair(1, e1)>> : e1 \in RoleEntries, e2 \in RoleEntries}
     \cup {parse_tsentence(t) : t \in {SentBlankLabel, SentStored}}


(***************************************************************************)
(* The run: inject_roles_mode / main.                                      *)
(***************************************************************************)
Init ==
  /\ inp \in Inputs
  /\ run = 1
  /\ pc = "start"
  /\ stages = <<>>
  /\ EVENT_MAPPING = ImportedEvents
  /\ ROLES_DB = ImportedRoles
  /\ T = inp.T
  /\ E = inp.E
  /\ role_usage = <<>>
  /\ evt_ids = EmptyDict
  /\ role_codes = EmptyDict
  /\ created = EmptyDict
  /\ modifications = <<>>
  /\ ged_to_perno = EmptyDict
  /\ dsid = 1
  /\ events_index = EmptyDict
  /\ existing_witnesses = {}
  /\ blocks = <<>>
  /\ evq = <<>>
  /\ cur = NoCur
  /\ witq = <<>>
  /\ stats = ZeroStats
  /\ outcomes = <<>>
  /\ lastIns = NoIns
  /\ hist = <<>>
  /\ gram = [stage |-> "idle", roles_data |-> <<>>, texts |-> <<>>]
  /\ simulated = NoSimulation

\* get_tmg_file(suffix) ends the process when the table is not there
TableMissing(suffix) == suffix \in inp.missing

\* inject_roles_mode, lines 1316-1344: the mapping file is read into the globals
LoadMapping ==
  /\ pc = "start"
  /\ stages' = Append(stages, "mapping")
  /\ IF MappingLoads(inp.mapping_status)
     THEN /\ EVENT_MAPPING' = LoadEvents(inp.mapping.events)
          /\ ROLES_DB' = LoadRoles(inp.mapping.roles)
          /\ pc' = "scan"
     ELSE IF inp.mapping_status = "badshape"
     \* valid JSON whose 'roles' is no dict: the events loop ran, ROLES_DB = {} was set
     THEN /\ EVENT_MAPPING' = LoadEvents(inp.mapping.events)
          /\ ROLES_DB' = EmptyDict
          /\ pc' = "aborted"
     ELSE /\ UNCHANGED mapVars
          /\ pc' = "aborted"
  /\ UNCHANGED <<gram, simulated, inp, run, dbVars, role_usage, syncVars, loadVars, injVars, hist>>

\* (mutation of ScanRoleUsage: the run goes on to load_persons_and_events without
\* the synchronizer having run)
ScanThenLoad ==
  /\ pc = "scan"
  /\ stages' = Append(stages, "scan")
  /\ role_usage' = scan_role_usage(inp.gedcom, EVENT_MAPPING, ROLES_DB)
  /\ pc' = "load"
  /\ UNCHANGED <<gram, simulated, inp, run, mapVars, dbVars, syncVars, loadVars, injVars, hist>>

ScanRoleUsage ==
  /\ pc = "scan"
  /\ stages' = Append(stages, "scan")
  /\ role_usage' = scan_role_usage(inp.gedcom, EVENT_MAPPING, ROLES_DB)
  /\ pc' = "sync"
  /\ UNCHANGED <<gram, simulated, inp, run, mapVars, dbVars, syncVars, loadVars, injVars, hist>>

UpdateTmgStructure ==
  /\ pc = "sync"
  /\ stages' = Append(stages, "sync")
  /\ IF TableMissing("T")
     THEN /\ pc' = "aborted"
          /\ UNCHANGED <<T, syncVars>>
     ELSE LET r == update_tmg_structure(T, role_usage, DRY_RUN)
          IN /\ T' = r.table
             /\ evt_ids' = r.event_ids
             /\ role_codes' = r.role_codes
             /\ created' = r.created
             /\ modifications' = r.modifications
             /\ pc' = "load"
  /\ UNCHANGED <<gram, simulated, inp, run, mapVars, E, role_usage, loadVars, injVars, hist>>

LoadPersonsAndEvents ==
  /\ pc = "load"
  /\ stages' = Append(stages, "load")
  /\ IF TableMissing("$") \/ TableMissing("G") \/ TableMissing("E")
     THEN /\ pc' = "aborted"
          /\ UNCHANGED loadVars
     ELSE LET r == load_persons_and_events(inp.P, inp.G, E, inp.gedcom)
          IN /\ ged_to_perno' = r.ged_to_perno
             /\ dsid' = r.dsid
             /\ events_index' = r.events_index
             /\ existing_witnesses' = r.existing_witnesses
             /\ pc' = "inject"
  /\ UNCHANGED <<gram, simulated, inp, run, mapVars, dbVars, role_usage, syncVars, injVars, hist>>

\* inject_witnesses up to its loop: E.DBF is opened, the tally starts at zero
InjectWitnesses ==
  /\ pc = "inject"
  /\ stages' = Append(stages, "inject")
  /\ blocks' = SplitBlocks(inp.gedcom, <<>>, <<>>)
  /\ stats' = ZeroStats
  /\ pc' = "blocks"
  /\ UNCHANGED <<gram, simulated, inp, run, mapVars, dbVars, role_usage, syncVars, loadVars,
                 evq, cur, witq, outcomes, lastIns, hist>>

\* process_block and the parse of process_events for the next block
ProcessBlock ==
  /\ pc = "blocks" /\ evq = <<>> /\ witq = <<>> /\ blocks # <<>>
  /\ LET pper == BlockPerson(Head(blocks), ged_to_perno)
     IN /\ evq' = IF pper # 0
                  THEN EffectiveEvents(ParseEvents(Head(blocks), NoEvent, evt_ids,
                                                   EVENT_MAPPING, <<>>))
                  ELSE <<>>
        /\ cur' = [NoCur EXCEPT !.pper = pper]
  /\ blocks' = Tail(blocks)
  /\ UNCHANGED <<gram, simulated, inp, run, pc, stages, mapVars, dbVars, role_usage, syncVars, loadVars,
                 witq, stats, outcomes, lastIns, hist>>

\* flush_event up to its loop over the witnesses
FlushEvent ==
  /\ pc = "blocks" /\ witq = <<>> /\ evq # <<>>
  /\ LET evt_ctx == Head(evq)
         y_ged == GedcomYear(evt_ctx.date)
         candidates == DictGet(events_index, <<cur.pper, evt_ctx.eid>>, <<>>)
         target_gnum == FindTarget(candidates, y_ged)
         target == TargetPersons(candidates, target_gnum)
     IN IF target_gnum = 0
        THEN /\ stats' = [stats EXCEPT !.error = @ + Len(evt_ctx.witnesses)]
             /\ outcomes' = outcomes \o [i \in 1..Len(evt_ctx.witnesses) |-> "error"]
             /\ UNCHANGED <<cur, witq>>
        ELSE /\ cur' = [pper |-> cur.pper, eid |-> evt_ctx.eid, gnum |-> target_gnum,
                        per1 |-> target.per1, per2 |-> target.per2]
             /\ witq' = evt_ctx.witnesses
             /\ UNCHANGED <<stats, outcomes>>
  /\ evq' = Tail(evq)
  /\ UNCHANGED <<gram, simulated, inp, run, pc, stages, mapVars, dbVars, role_usage, syncVars, loadVars,
                 blocks, lastIns, hist>>

\* (mutation of Bump: a skipped duplicate is counted as an injection)
BumpSkipAsOk(st, res) ==
  CASE res \in {"ok", "skip"} -> [st EXCEPT !.ok = @ + 1]
    [] res = "principal" -> [st EXCEPT !.principal = @ + 1]
    [] res = "error" -> [st EXCEPT !.error = @ + 1]

Bump(st, res) ==
  CASE res = "ok" -> [st EXCEPT !.ok = @ + 1]
    [] res = "principal" -> [st EXCEPT !.principal = @ + 1]
    [] res = "skip" -> [st EXCEPT !.skip = @ + 1]
    [] res = "error" -> [st EXCEPT !.error = @ + 1]

\* (mutation of InsertSingleWitness: a failed reference ends the loop over the
\* references of the event)
InsertStopsOnError ==
  /\ pc = "blocks" /\ witq # <<>>
  /\ LET r == insert_single_witness(Head(witq), cur.eid, cur.gnum, role_codes, ged_to_perno,
                                    existing_witnesses, E, dsid, cur.per1, cur.per2,
                                    ROLES_DB, DRY_RUN)
     IN /\ E' = r.rows
        /\ existing_witnesses' = r.existing
        /\ stats' = Bump(stats, r.res)
        /\ outcomes' = Append(outcomes, r.res)
        /\ lastIns' = [res |-> r.res, info |-> r.info]
        /\ witq' = IF r.res = "error" THEN <<>> ELSE Tail(witq)
  /\ UNCHANGED <<gram, simulated, inp, run, pc, stages, mapVars, T, role_usage, syncVars,
                 ged_to_perno, dsid, events_index, blocks, evq, cur, hist>>

\* one iteration of `for wit in evt_ctx['witnesses']`
InsertSingleWitness ==
  /\ pc = "blocks" /\ witq # <<>>
  /\ LET r == insert_single_witness(Head(witq), cur.eid, cur.gnum, role_codes, ged_to_perno,
                                    existing_witnesses, E, dsid, cur.per1, cur.per2,
                                    ROLES_DB, DRY_RUN)
     IN /\ E' = r.rows
        /\ existing_witnesses' = r.existing
        /\ stats' = Bump(stats, r.res)
        /\ outcomes' = Append(outcomes, r.res)
        /\ lastIns' = [res |-> r.res, info |-> r.info]
  /\ witq' = Tail(witq)
  /\ UNCHANGED <<gram, simulated, inp, run, pc, stages, mapVars, T, role_usage, syncVars,
                 ged_to_perno, dsid, events_index, blocks, evq, cur, hist>>

\* the end of inject_witnesses: the summary
Finish ==
  /\ pc = "blocks" /\ blocks = <<>> /\ evq = <<>> /\ witq = <<>>
  /\ pc' = "done"
  /\ stages' = Append(stages, "summary")
  /\ hist' = Append(hist, [stats |-> stats, outcomes |-> outcomes,
                           role_codes |-> role_codes, evt_ids |-> evt_ids,
                           created |-> created, modifications |-> modifications,
                           T |-> T, E |-> E])
  /\ UNCHANGED <<gram, simulated, inp, run, mapVars, dbVars, role_usage, syncVars, loadVars, injVars>>

\* the engine is started again on the same inputs and the database as it is now
Rerun ==
  /\ pc = "done" /\ run = 1
  /\ run' = run + 1
  /\ pc' = "start"
  /\ stages' = <<>>
  /\ role_usage' = <<>>
  /\ evt_ids' = EmptyDict /\ role_codes' = EmptyDict
  /\ created' = EmptyDict /\ modifications' = <<>>
  /\ ged_to_perno' = EmptyDict /\ dsid' = 1
  /\ events_index' = EmptyDict /\ existing_witnesses' = {}
  /\ blocks' = <<>> /\ evq' = <<>> /\ cur' = NoCur /\ witq' = <<>>
  /\ stats' = ZeroStats /\ outcomes' = <<>> /\ lastIns' = NoIns
  /\ UNCHANGED <<gram, simulated, inp, mapVars, dbVars, hist>>

\* after a simulation the engine is started on the same inputs and the same
\* database with DRY_RUN off
StartReal ==
  /\ pc = "done" /\ run = 1 /\ DRY_RUN /\ ~simulated.done
  /\ simulated' = [done |-> TRUE, stats |-> stats, outcomes |-> outcomes]
  /\ inp' = [inp EXCEPT !.dry_run = FALSE]
  /\ hist' = <<>>
  /\ pc' = "start"
  /\ stages' = <<>>
  /\ role_usage' = <<>>
  /\ evt_ids' = EmptyDict /\ role_codes' = EmptyDict
  /\ created' = EmptyDict /\ modifications' = <<>>
  /\ ged_to_perno' = EmptyDict /\ dsid' = 1
  /\ events_index' = EmptyDict /\ existing_witnesses' = {}
  /\ blocks' = <<>> /\ evq' = <<>> /\ cur' = NoCur /\ witq' = <<>>
  /\ stats' = ZeroStats /\ outcomes' = <<>> /\ lastIns' = NoIns
  /\ UNCHANGED <<gram, run, mapVars, dbVars>>

Next ==
  \/ LoadMapping
  \/ ScanRoleUsage
  \/ UpdateTmgStructure
  \/ LoadPersonsAndEvents
  \/ InjectWitnesses
  \/ ProcessBlock
  \/ FlushEvent
  \/ InsertSingleWitness
  \/ Finish
  \/ Rerun
  \/ StartReal

Spec == Init /\ [][Next]_vars

TypeOK == pc \in {"idle", "start", "scan", "sync", "load", "inject", "blocks", "done", "aborted"}

runVars == <<simulated, inp, run, pc, stages, mapVars, dbVars, role_usage, syncVars, loadVars,
             injVars, hist>>

\* the role injector is not started; the value to serialize is drawn
InitRoundTrip ==
  /\ gram \in {[stage |-> "data", roles_data |-> d, texts |-> <<>>] : d \in GrammarInputs}
  /\ inp = CHOOSE i \in InputsGrammar : TRUE
  /\ run = 1
  /\ pc = "idle"
  /\ stages = <<>>
  /\ EVENT_MAPPING = ImportedEvents
  /\ ROLES_DB = ImportedRoles
  /\ T = inp.T
  /\ E = inp.E
  /\ role_usage = <<>>
  /\ evt_ids = EmptyDict
  /\ role_codes = EmptyDict
  /\ created = EmptyDict
  /\ modifications = <<>>
  /\ ged_to_perno = EmptyDict
  /\ dsid = 1
  /\ events_index = EmptyDict
  /\ existing_witnesses = {}
  /\ blocks = <<>>
  /\ evq = <<>>
  /\ cur = NoCur
  /\ witq = <<>>
  /\ stats = ZeroStats
  /\ outcomes = <<>>
  /\ lastIns = NoIns
  /\ hist = <<>>
  /\ simulated = NoSimulation

\* new_tsentence = rebuild_tsentence(roles_data)
Serialize ==
  /\ gram.stage \in {"data", "parsed"}
  /\ gram' = [gram EXCEPT !.stage = IF @ = "data" THEN "text" ELSE "done",
                          !.texts = Append(@, rebuild_tsentence(gram.roles_data))]
  /\ UNCHANGED runVars

\* roles_data = parse_tsentence(tsentence)
Parse ==
  /\ gram.stage = "text"
  /\ gram' = [gram EXCEPT !.stage = "parsed",
                          !.roles_data = parse_tsentence(gram.texts[Len(gram.texts)])]
  /\ UNCHANGED runVars

NextRoundTrip ==
  \/ Serialize
  \/ Parse

SpecRoundTrip == InitRoundTrip /\ [][NextRoundTrip]_vars

(***************************************************************************)
(* Properties.                                                             *)
(***************************************************************************)
\* the tables as the current run found them
TStart == IF run = 1 THEN inp.T ELSE hist[run - 1].T
EStart == IF run = 1 THEN inp.E ELSE hist[run - 1].E

Synced == pc \in {"load", "inject", "blocks", "done"}

Distinct(seq) == \A i, j \in 1..Len(seq) : seq[i] = seq[j] => i = j

Counted(st) == st.ok + st.principal + st.skip + st.error

\* C1: Idempotence.  When a real run is followed by a second run on the same
\* inputs and the database the first run left, the second run injects nothing
\* and every reference the first run injected or skipped is skipped as a
\* duplicate.
C1_Idempotence ==
  (Len(hist) >= 2 /\ ~DRY_RUN) =>
     /\ hist[2].stats.ok = 0
     /\ hist[2].stats.principal = 0
     /\ Len(hist[2].outcomes) = Len(hist[1].outcomes)
     /\ \A i \in 1..Len(hist[1].outcomes) :
           hist[1].outcomes[i] \in {"ok", "principal", "skip"}
              => hist[2].outcomes[i] = "skip"

\* C2: Anti-duplicate invariant.  If the key (event id, person id, normalized
\* role code, is-principal) is unique over the witness table before the run, it
\* is unique over the whole table after every append.
KeysUnique(rows) == Distinct([i \in 1..Len(rows) |-> RowKey(rows[i])])

C2_WitnessKeysUnique == KeysUnique(inp.E) => KeysUnique(E)

\* a run that appended to a table that held rows and skipped a duplicate
C2_Witness == /\ ~DRY_RUN /\ inp.E # <<>> /\ KeysUnique(inp.E)
              /\ Len(E) > Len(inp.E) /\ stats.skip > 0

\* C3: Self-reference correctness.  A record appended for a witness who is a
\* participant of the matched event has is-principal set and carries the
\* PRINCIPAL code registered for the reference's role in the event's type.
EventRow(gnum) == inp.G[CHOOSE i \in 1..Len(inp.G) : inp.G[i].recno = gnum]

IsParticipant(wper, gnum) ==
  LET g == EventRow(gnum) IN wper = g.per1 \/ (g.per2 > 0 /\ wper = g.per2)

C3_SelfReference ==
  (~DRY_RUN /\ lastIns.res \in {"ok", "principal"}
   /\ IsParticipant(lastIns.info.wper, lastIns.info.gnum)) =>
     /\ E[Len(E)].primary
     /\ lastIns.info.src = "role"
     /\ lastIns.info.code =
          DictGet(DictGet(role_codes, lastIns.info.eid, EmptyDict),
                  lastIns.info.role, NoCodes).PRINCIPAL

\* C4: Event-key agreement.  Every reference the injector processes for an
\* event type was recorded by the classification scan under a key that names
\* that same event type.
RecordedUnder(role_norm, eid) ==
  \E i \in 1..Len(role_usage) :
     /\ role_usage[i].key = role_norm
     /\ \E k \in role_usage[i].events : DictGet(evt_ids, k, 0) = eid

C4_EventKeyAgreement ==
  pc = "blocks" =>
     \A i \in 1..Len(witq) : RecordedUnder(normalize(witq[i].role), cur.eid)

\* C5: Tally completeness.  At the end of the run the four tallies add up to
\* the number of witness references the file declares.
DeclaredRefs(lines) ==
  Cardinality({i \in 1..Len(lines) : lines[i].lvl = 2 /\ lines[i].tag = "_SHAR"})

C5_TallyComplete == pc = "done" => Counted(stats) = DeclaredRefs(inp.gedcom)

\* C6: A missing table is fatal before any mutation.  In a real run with one of
\* the four tables missing, the run does not reach the injection and no T.DBF
\* record is modified and no E.DBF row is created.
C6_MissingTableNoMutation ==
  (inp.missing # {} /\ ~DRY_RUN) =>
     /\ pc \notin {"inject", "blocks", "done"}
     /\ T = inp.T
     /\ E = inp.E

\* C7: A missing or unparsable mapping file is fatal with no partial state: no
\* later stage runs, no record is modified or created, and the mapping tables
\* are left as they were.
C7_BadMappingNoState ==
  inp.mapping_status \in {"absent", "invalid"} =>
     /\ pc \in {"start", "aborted"}
     /\ \A i \in 1..Len(stages) : stages[i] = "mapping"
     /\ T = inp.T /\ E = inp.E
     /\ EVENT_MAPPING = ImportedEvents /\ ROLES_DB = ImportedRoles
     /\ role_usage = <<>> /\ role_codes = EmptyDict /\ existing_witnesses = {}

\* the run was refused for its mapping file
C7_Witness == inp.mapping_status \in {"absent", "invalid"} /\ pc = "aborted"

\* C8: Code allocation.  Every code the synchronizer allocates for an event
\* type is greater than every code its label section held and than every code
\* allocated before it in the run; a section of distinct codes stays one.
C8_AllocationIncreasing ==
  Synced =>
    \A i \in 1..Len(T) :
       LET before == SectionCodes(TStart[i].tsentence)
           cs == created[T[i].etypenum]
       IN /\ \A j \in 1..Len(cs) :
                /\ \A b \in 1..Len(before) : cs[j] > before[b]
                /\ \A k \in 1..(j - 1) : cs[j] > cs[k]
          /\ ~DRY_RUN => SectionCodes(T[i].tsentence) = before \o cs
          /\ Distinct(before) => Distinct(SectionCodes(T[i].tsentence))

\* two codes were allocated in a section that already held codes
C8_Witness ==
  /\ Synced /\ ~DRY_RUN
  /\ \E i \in 1..Len(T) : /\ Len(created[T[i].etypenum]) >= 2
                          /\ SectionCodes(TStart[i].tsentence) # <<>>

\* C9: Code stability.  The role-code map of a second run on the same inputs is
\* the role-code map of the first run.
C9_CodeStability == (run >= 2 /\ Synced) => role_codes = hist[1].role_codes

\* C10: Labels are reused, never duplicated.  A label section in which no two
\* codes carried the same normalized primary label has none after the
\* synchronizer.
RECURSIVE PrimaryLabels(_)
PrimaryLabels(toks) ==
  IF toks = <<>> THEN <<>>
  ELSE IF Head(toks).k = "RL" /\ \E i \in 2..Len(toks) : toks[i].k = "TXT"
       THEN LET i == CHOOSE i \in 2..Len(toks) :
                        toks[i].k = "TXT" /\ \A j \in 2..(i - 1) : toks[j].k # "TXT"
            IN IF \A j \in 2..(i - 1) : toks[j].k # "RL"
               THEN <<normalize(toks[i].s)>> \o PrimaryLabels(Tail(toks))
               ELSE PrimaryLabels(Tail(toks))
       ELSE PrimaryLabels(Tail(toks))

NoDuplicateLabel(sent) == Distinct(PrimaryLabels(LabelsContent(sent)))

C10_LabelsNotDuplicated ==
  Synced =>
    \A i \in 1..Len(T) :
       NoDuplicateLabel(TStart[i].tsentence) => NoDuplicateLabel(T[i].tsentence)

\* C11: Sequence monotonicity.  In a real run every row appended for an event
\* carries a sequence number greater than that of every row the table already
\* holds for the event, stored before the run or appended earlier in it.
C11_SequenceMonotonic ==
  ~DRY_RUN =>
     \A i \in (Len(EStart) + 1)..Len(E) :
        \A j \in 1..(i - 1) :
           E[j].gnum = E[i].gnum => E[i].sequence > E[j].sequence

\* two rows were appended for an event that already had rows
C11_Witness ==
  /\ ~DRY_RUN /\ EStart # <<>> /\ Len(E) >= Len(EStart) + 2
  /\ E[Len(E)].gnum = EStart[1].gnum /\ E[Len(E) - 1].gnum = EStart[1].gnum

\* C12: Injection side effects.  In a real run the witness table is the table
\* the run started from followed by one row per reference counted
\* injected-normal or injected-principal: skipped and failed references add
\* nothing, and no stored row is changed or removed.
C12_OneRowPerInjection ==
  ~DRY_RUN =>
     /\ Len(E) = Len(EStart) + stats.ok + stats.principal
     /\ SubSeq(E, 1, Len(EStart)) = EStart

\* a finished real run over a table with rows: one reference injected, one not
C12_Witness ==
  /\ ~DRY_RUN /\ pc = "done" /\ run = 1 /\ EStart # <<>>
  /\ stats.ok + stats.principal > 0 /\ stats.skip + stats.error > 0

\* C13: Stage ordering.  In every run the stages come in the order mapping,
\* scan, synchronizer, load, injection, summary; T.DBF is written only by the
\* synchronizer, before any row of the run is appended and no record twice; a
\* row is appended only after the synchronizer and the load of the tables, and
\* the cache of existing witnesses is filled by that load.
StageOrder == <<"mapping", "scan", "sync", "load", "inject", "summary">>

StagesInOrder ==
  /\ Len(stages) <= Len(StageOrder)
  /\ \A i \in 1..Len(stages) : stages[i] = StageOrder[i]

StageStep ==
  /\ T' # T => (pc = "sync" /\ E = EStart /\ existing_witnesses = {})
  /\ E' # E => (pc = "blocks" /\ T' = T /\ SubSeq(stages, 1, 4) = SubSeq(StageOrder, 1, 4))
  /\ (existing_witnesses = {} /\ existing_witnesses' # {})
        => (pc = "load" \/ (pc = "blocks" /\ EStart = <<>>))

C13_StageOrdering ==
  /\ [](StagesInOrder /\ Distinct(modifications))
  /\ [][StageStep]_vars

\* a real run that wrote T.DBF, loaded a cache that was not empty and appended
C13_Witness ==
  /\ ~DRY_RUN /\ pc = "done" /\ modifications # <<>>
  /\ EStart # <<>> /\ Len(E) > Len(EStart)

\* C14: Scenario A generalised.  When the two references of an event use one
\* role, one naming a third party and one naming a participant of the matched
\* event, a real run over an empty witness table leaves the event type with a
\* code for the role's label and another for "Principal " + label, and creates
\* exactly two rows: is-principal false with the NORMAL code and is-principal
\* true with the PRINCIPAL code; in an individual or in a family record.
RECURSIVE FileRefs(_, _)
FileRefs(lines, acc) ==
  IF lines = <<>> THEN acc
  ELSE LET l == Head(lines) IN
       IF l.lvl = 2 /\ l.tag = "_SHAR"
       THEN FileRefs(Tail(lines), Append(acc, [id |-> StripAt(l.val), role |-> "Witness"]))
       ELSE IF l.lvl = 3 /\ l.tag = "ROLE" /\ acc # <<>>
       THEN FileRefs(Tail(lines), [acc EXCEPT ![Len(acc)].role = l.val])
       ELSE FileRefs(Tail(lines), acc)

\* the two references are one role, used by a third party and by a participant
ScenarioA(refs, gnum) ==
  /\ Len(refs) = 2
  /\ normalize(refs[1].role) = normalize(refs[2].role)
  /\ \A i \in 1..2 : refs[i].id \in DOMAIN ged_to_perno
  /\ \E i \in 1..2 :
        /\ IsParticipant(ged_to_perno[refs[i].id], gnum)
        /\ ~IsParticipant(ged_to_perno[refs[3 - i].id], gnum)

C14_ScenarioA ==
  LET refs == FileRefs(inp.gedcom, <<>>) IN
  (pc = "done" /\ run = 1 /\ ~DRY_RUN /\ inp.E = <<>> /\ lastIns.res # "none"
   /\ lastIns.info.gnum # 0 /\ ScenarioA(refs, lastIns.info.gnum)) =>
     LET eid == lastIns.info.eid
         rec == T[CHOOSE i \in 1..Len(T) : T[i].etypenum = eid]
         labels == ParseGrammar(rec.tsentence).existing_roles
         base == RoleInfo(ROLES_DB, normalize(refs[1].role), refs[1].role).eng
         nkey == normalize(base)
         pkey == normalize(PrincipalLabel(base))
     IN /\ nkey \in DOMAIN labels /\ pkey \in DOMAIN labels
        /\ labels[nkey] # labels[pkey]
        /\ Len(E) = 2
        /\ \E i \in 1..2 :
              /\ ~E[i].primary /\ E[i].role = StrVal(Fmt05(labels[nkey]))
              /\ E[3 - i].primary /\ E[3 - i].role = StrVal(Fmt05(labels[pkey]))


\* C15: Classifier rule.  After the scan, a role is flagged principal exactly
\* when one of its references names the identifier of the top-level record
\* (individual or family) that contains it, flagged normal exactly when one
\* names another identifier, and its event set is the set of event-type keys
\* of the events in which it appears.
\* the references of the events the scan recognizes, each with the identifier
\* of the level-0 record that contains it and the key of its event
RefsFlush(st) ==
  st.out \cup { [owner |-> st.rec, id |-> st.pend[i].id,
                 role |-> normalize(st.pend[i].role), ev |-> st.name] :
                i \in 1..Len(st.pend) }

RECURSIVE RefsByRecord(_, _)
RefsByRecord(lines, st) ==
  IF lines = <<>> THEN RefsFlush(st)
  ELSE LET l == Head(lines)
           next ==
             IF l.lvl = 0
             THEN [rec |-> StripAt(l.tag), inev |-> FALSE, name |-> "", pend |-> <<>>,
                   out |-> RefsFlush(st)]
             ELSE IF l.lvl = 1
             THEN [rec |-> st.rec, inev |-> l.tag \in ScanEventTags,
                   name |-> IF l.tag \in GenericTags /\ l.val # ""
                            THEN ScanEventName(EVENT_MAPPING, l.val)
                            ELSE ScanEventName(EVENT_MAPPING, l.tag),
                   pend |-> <<>>, out |-> RefsFlush(st)]
             ELSE IF l.lvl = 2 /\ l.tag = "TYPE" /\ st.inev
             THEN [st EXCEPT !.name = ScanEventName(EVENT_MAPPING, l.val)]
             ELSE IF l.lvl = 2 /\ l.tag = "_SHAR" /\ st.inev
             THEN [st EXCEPT !.pend = Append(@, [id |-> StripAt(l.val), role |-> "Witness"])]
             ELSE IF l.lvl = 3 /\ l.tag = "ROLE" /\ st.pend # <<>>
             THEN [st EXCEPT !.pend[Len(st.pend)].role = l.val]
             ELSE st
       IN RefsByRecord(Tail(lines), next)

DeclaredByRecord ==
  RefsByRecord(inp.gedcom,
               [rec |-> "", inev |-> FALSE, name |-> "", pend |-> <<>>, out |-> {}])

C15_ClassifierRule ==
  pc \notin {"start", "scan", "aborted"} =>
    LET refs == DeclaredByRecord
        of(r) == {x \in refs : x.role = r}
    IN /\ {role_usage[i].key : i \in 1..Len(role_usage)} = {x.role : x \in refs}
       /\ \A i \in 1..Len(role_usage) :
            LET u == role_usage[i] IN
            /\ u.principal <=> \E x \in of(u.key) : x.id = x.owner
            /\ u.normal <=> \E x \in of(u.key) : x.id # x.owner
            /\ u.events = {x.ev : x \in of(u.key)}


\* C16: Scenario C generalised.  When neither the role of a reference has a
\* code of the required variant for the event type nor Witness a code of
\* either variant, the appended row carries the default code 2 and its note is
\* the role's label in square brackets followed by the original note; when the
\* role has its own code of the required variant, the note is stored as it is.
AppendedLast == ~DRY_RUN /\ lastIns.res \in {"ok", "principal"} /\ E # <<>>

CodesAt(eid, role) == DictGet(DictGet(role_codes, eid, EmptyDict), role, NoCodes)

OwnCode(info) ==
  IF info.is_self THEN CodesAt(info.eid, info.role).PRINCIPAL
  ELSE CodesAt(info.eid, info.role).NORMAL

\* the label of the role of the last reference handled, from the line of the file
LastLabel(info) ==
  LET refs == FileRefs(inp.gedcom, <<>>)
      k == CHOOSE k \in 1..Len(refs) : normalize(refs[k].role) = info.role
  IN RoleInfo(ROLES_DB, info.role, refs[k].role).eng

C16_DefaultCodeAndNote ==
  AppendedLast =>
    LET info == lastIns.info
        row == E[Len(E)]
        wit == CodesAt(info.eid, "WITNESS")
    IN /\ (OwnCode(info) = 0 /\ wit.NORMAL = 0 /\ wit.PRINCIPAL = 0) =>
             /\ row.role = StrVal("00002")
             /\ row.witmemo = "[" \o LastLabel(info) \o "] " \o info.note
       /\ OwnCode(info) # 0 => row.witmemo = info.note

\* a row with the default code and a bracketed note that is not empty
C16_Witness ==
  /\ AppendedLast /\ lastIns.info.note # ""
  /\ OwnCode(lastIns.info) = 0
  /\ CodesAt(lastIns.info.eid, "WITNESS") = NoCodes
  /\ E[Len(E)].witmemo = "[Buyer]  deed"


\* C17: Role-code fallback order.  When the role of a reference has no code of
\* the required variant, the appended row carries the code of Witness for the
\* event type: the variant of the same category (PRINCIPAL for a participant,
\* NORMAL for a third party) when Witness has it, the other variant only when
\* it has not, and the default code only when Witness has neither.
C17_FallbackOrder ==
  (AppendedLast /\ OwnCode(lastIns.info) = 0) =>
    LET info == lastIns.info
        wit == CodesAt(info.eid, "WITNESS")
        same == IF info.is_self THEN wit.PRINCIPAL ELSE wit.NORMAL
        other == IF info.is_self THEN wit.NORMAL ELSE wit.PRINCIPAL
        role == E[Len(E)].role
    IN /\ same # 0 => role = StrVal(Fmt05(same))
       /\ (same = 0 /\ other # 0) => role = StrVal(Fmt05(other))
       /\ (same = 0 /\ other = 0) => role = StrVal(Fmt05(DefaultCode))

\* a participant whose role has no PRINCIPAL code, Witness having both variants
C17_Witness ==
  /\ AppendedLast /\ OwnCode(lastIns.info) = 0
  /\ lastIns.info.is_self /\ lastIns.info.role = "BUYER"
  /\ CodesAt(lastIns.info.eid, "WITNESS").PRINCIPAL # 0
  /\ CodesAt(lastIns.info.eid, "WITNESS").NORMAL # 0


\* C18: Scenario D generalised.  When the event of the file carries a usable
\* year and every stored candidate for (owner person, event type) carries a
\* usable year, not zero, that differs from it, flush_event selects none: each
\* reference of the event is counted as an error and no row is created for it.
\* the year a DATE value of the file carries ("": none)
YearOfDate(date) ==
  CASE date \in {"1750", "10 OCT 1750"} -> "1750"
    [] date = "ABT 1751" -> "1751"
    [] OTHER -> ""

\* the year a stored EDATE carries ("": none, or year zero)
YearOfEDate(edate) ==
  CASE edate = EDate1750 -> "1750"
    [] edate \in {EDate1751, EDateAbout1751} -> "1751"
    [] OTHER -> ""

\* the rows of G.DBF of type t in which p is a participant, in storage order
StoredCandidates(p, t) ==
  LET Test(r) == r.etype = t /\ (r.per1 = p \/ r.per2 = p)
  IN SelectSeq(inp.G, Test)

\* the candidate may be selected for an event of the file dated `date`
Acceptable(r, date) ==
  \/ YearOfDate(date) = ""
  \/ YearOfEDate(r.edate) = ""
  \/ YearOfEDate(r.edate) = YearOfDate(date)

\* flush_event is about to handle the event at the head of the queue
AtFlush == pc = "blocks" /\ witq = <<>> /\ evq # <<>>

DateOf(evt_ctx) == IF evt_ctx.date = None THEN "" ELSE evt_ctx.date

ScenarioDStep ==
  LET evt_ctx == Head(evq)
      cands == StoredCandidates(cur.pper, evt_ctx.eid)
  IN (AtFlush /\ YearOfDate(DateOf(evt_ctx)) # ""
      /\ \A i \in 1..Len(cands) : ~Acceptable(cands[i], DateOf(evt_ctx))) =>
       /\ stats'.error = stats.error + Len(evt_ctx.witnesses)
       /\ stats'.ok = stats.ok /\ stats'.principal = stats.principal
       /\ stats'.skip = stats.skip
       /\ E' = E /\ witq' = <<>>

FileDate ==
  IF \E i \in 1..Len(inp.gedcom) : inp.gedcom[i].lvl = 2 /\ inp.gedcom[i].tag = "DATE"
  THEN inp.gedcom[CHOOSE i \in 1..Len(inp.gedcom) :
                     inp.gedcom[i].lvl = 2 /\ inp.gedcom[i].tag = "DATE"].val
  ELSE ""

MatchingStep ==
  LET evt_ctx == Head(evq)
      cands == StoredCandidates(cur.pper, evt_ctx.eid)
      ok == {i \in 1..Len(cands) : Acceptable(cands[i], DateOf(evt_ctx))}
  IN (AtFlush /\ ok # {}) =>
       LET first == CHOOSE i \in ok : \A j \in ok : i <= j
       IN /\ cur'.gnum = cands[first].recno
          /\ cur'.per1 = cands[first].per1 /\ cur'.per2 = cands[first].per2
          /\ witq' = evt_ctx.witnesses
          /\ stats' = stats

C19_WitnessTie ==
  /\ pc = "done" /\ run = 1 /\ inp.G = TableGDated(EDateZero, EDate1750)
  /\ YearOfDate(FileDate) = "1750"
  /\ Len(E) = 2 /\ E[1].gnum = 5 /\ E[2].gnum = 5


\* C20: Simulation mode persists nothing.  In a dry run the synchronizer and
\* the injection leave every record of T.DBF (grammar text and both flags) and
\* the whole of E.DBF as they were, and the synchronizer still returns the
\* event-id map and the role-code map a real run on the same inputs returns.
C20_DryRunPersistsNothing ==
  DRY_RUN =>
    /\ T = inp.T /\ E = inp.E
    /\ Synced =>
         LET real == update_tmg_structure(inp.T, role_usage, FALSE)
         IN evt_ids = real.event_ids /\ role_codes = real.role_codes

\* a finished dry run in which a real run would have written T.DBF and E.DBF
C20_Witness ==
  /\ DRY_RUN /\ pc = "done"
  /\ update_tmg_structure(inp.T, role_usage, FALSE).table # inp.T
  /\ stats.ok > 0 /\ stats.principal > 0
  /\ T = inp.T /\ E = inp.E


\* C21: Capability flags.  After the synchronizer of a real run, an event type
\* one of whose roles is used normally has its witness flag on, an event type
\* one of whose roles is used as principal has its principal flag on, and no
\* flag that was on before the run is off.
\* the entries of role_usage whose event set holds the name of the record
UsageSubset(rec) ==
  {i \in 1..Len(role_usage) : normalize(rec.etypename) \in role_usage[i].events}

C21_CapabilityFlags ==
  (~DRY_RUN /\ Synced) =>
    \A i \in 1..Len(T) :
       /\ (\E k \in UsageSubset(T[i]) : role_usage[k].normal) => T[i].witrole
       /\ (\E k \in UsageSubset(T[i]) : role_usage[k].principal) => T[i].prinrole
       /\ TStart[i].witrole => T[i].witrole
       /\ TStart[i].prinrole => T[i].prinrole

\* both flags of a record were off and the synchronizer turned them on
C21_Witness ==
  /\ ~DRY_RUN /\ Synced /\ run = 1
  /\ \E i \in 1..Len(T) :
        /\ ~TStart[i].witrole /\ ~TStart[i].prinrole
        /\ T[i].witrole /\ T[i].prinrole


\* C22: Global-per-role scoping.  A role used as principal somewhere in the
\* file has, after the synchronizer, a PRINCIPAL code in every event type of
\* its event set (and the principal flag is on there), also where only third
\* parties use it; likewise a role used normally has a NORMAL code and the
\* witness flag in every event type of its event set.
\* the records of T.DBF whose name is an event key of the usage entry
TypesOf(u) == {i \in 1..Len(T) : normalize(T[i].etypename) \in u.events}

HasVariant(i, u, variant) ==
  LET codes == CodesAt(T[i].etypenum, u.key)
      code == IF variant = "PRINCIPAL" THEN codes.PRINCIPAL ELSE codes.NORMAL
  IN /\ code # 0
     /\ ~DRY_RUN => /\ IF variant = "PRINCIPAL" THEN T[i].prinrole ELSE T[i].witrole
                    /\ code \in Range(SectionCodes(T[i].tsentence))

\* the references of individual records, from the lines of the file
IndiRefs == {x \in DeclaredByRecord : x.owner \in IndiIds}

C22_GlobalScoping ==
  Synced =>
    \A k \in 1..Len(role_usage) :
       LET u == role_usage[k] IN
       /\ u.principal => \A i \in TypesOf(u) : HasVariant(i, u, "PRINCIPAL")
       /\ u.normal => \A i \in TypesOf(u) : HasVariant(i, u, "NORMAL")
       /\ (\E x \in IndiRefs : x.role = u.key /\ x.id = x.owner) =>
             \A x \in IndiRefs : x.role = u.key =>
                \A i \in 1..Len(T) : normalize(T[i].etypename) = x.ev =>
                   HasVariant(i, u, "PRINCIPAL")
       /\ (\E x \in IndiRefs : x.role = u.key /\ x.id # x.owner) =>
             \A x \in IndiRefs : x.role = u.key =>
                \A i \in 1..Len(T) : normalize(T[i].etypename) = x.ev =>
                   HasVariant(i, u, "NORMAL")

\* buyer is used by the owner in the marriage and by a third party in the
\* birth only: the Birth type has both codes of the role
C22_Witness ==
  /\ Synced /\ ~DRY_RUN /\ run = 1
  /\ inp.gedcom = GedcomMulti(<<Marr(<<Shar("I1", "buyer", "")>>),
                                Birt(<<Shar("I3", "buyer", "")>>)>>, <<>>)
  /\ CodesAt(2, "BUYER").PRINCIPAL # 0 /\ CodesAt(2, "BUYER").NORMAL # 0
  /\ CodesAt(1, "BUYER").PRINCIPAL # 0 /\ CodesAt(1, "BUYER").NORMAL # 0


\* C23: Write only on change.  The synchronizer writes a record of T.DBF only
\* when a code was allocated for it or one of its flags had to be turned on; a
\* record with no role in its usage subset, or whose needed codes exist and
\* whose needed flags are on, stays as it was, and the second real run on the
\* same inputs writes no record.
C23_WriteOnlyOnChange ==
  (~DRY_RUN /\ Synced) =>
    /\ \A i \in 1..Len(T) :
         LET eid == T[i].etypenum
             allocated == DictGet(created, eid, <<>>) # <<>>
             turned_on == \/ (T[i].prinrole /\ ~TStart[i].prinrole)
                          \/ (T[i].witrole /\ ~TStart[i].witrole)
         IN /\ (\E j \in 1..Len(modifications) : modifications[j] = eid)
                  <=> (allocated \/ turned_on)
            /\ ~(allocated \/ turned_on) => T[i] = TStart[i]
            /\ UsageSubset(T[i]) = {} => T[i] = TStart[i]
    /\ run = 2 => (modifications = <<>> /\ T = TStart)

\* the second real run, after a first run that wrote T.DBF, wrote nothing
C23_Witness ==
  /\ ~DRY_RUN /\ run = 2 /\ Synced /\ role_usage # <<>>
  /\ hist[1].modifications # <<>> /\ modifications = <<>> /\ T = TStart


\* C24: The synchronizer touches only the label section.  When it rewrites the
\* grammar text of a record, the entries the label section held keep their
\* codes and labels, the new entries come after them inside the section, and
\* the text outside the section (the phrases that follow it) is as it was.
TextBefore(sent) == SubSeq(sent, 1, FirstTok(sent, "LABELS") - 1)

TextAfter(sent) == SubSeq(sent, FirstTok(sent, "ENDLABELS") + 1, Len(sent))

IsPrefix(s, t) == Len(s) <= Len(t) /\ SubSeq(t, 1, Len(s)) = s

OnlyLabelSection(old, new) ==
  /\ IsPrefix(LabelsContent(old), LabelsContent(new))
  /\ HasTok(old, "LABELS") => /\ TextBefore(new) = TextBefore(old)
                              /\ TextAfter(new) = TextAfter(old)
  /\ ~HasTok(old, "LABELS") => IsPrefix(old, TextBefore(new))

C24_OnlyLabelSection ==
  (~DRY_RUN /\ Synced) =>
    \A i \in 1..Len(T) :
       T[i].tsentence # TStart[i].tsentence =>
          OnlyLabelSection(TStart[i].tsentence, T[i].tsentence)


\* C25: Per-reference failures are recoverable.  A reference whose witness
\* identifier resolves to no person is counted as one error and creates no
\* row; the references that follow it in the event, the later events and the
\* later records are still handled and can be injected.
\* the identifier has a REFN line in the file and $.DBF holds that reference
Resolvable(id) ==
  \E i \in 1..(Len(inp.gedcom) - 1) :
     /\ inp.gedcom[i] = Line(0, AtRef(id), "INDI")
     /\ inp.gedcom[i + 1].lvl = 1 /\ inp.gedcom[i + 1].tag = "REFN"
     /\ \E k \in 1..Len(inp.P) : inp.P[k].reference = inp.gedcom[i + 1].val

UnresolvedStep ==
  (pc = "blocks" /\ witq # <<>> /\ ~Resolvable(Head(witq).wit_ged)) =>
     /\ stats' = [stats EXCEPT !.error = @ + 1]
     /\ E' = E /\ existing_witnesses' = existing_witnesses
     /\ witq' = Tail(witq)
     /\ evq' = evq /\ blocks' = blocks /\ pc' = pc

C25_UnresolvedRecoverable == [][UnresolvedStep]_vars

\* after the unresolved reference to I4, the next reference of the marriage,
\* the birth of the same record and the marriage of the next record are injected
C25_Witness ==
  /\ pc = "done" /\ run = 1 /\ ~DRY_RUN
  /\ outcomes = <<"error", "ok", "ok", "ok">>
  /\ Len(E) = 3 /\ E[1].gnum = 1 /\ E[2].gnum = 2 /\ E[3].gnum = 1


\* C26: Both participant slots are indexed.  For every row of G.DBF of type t
\* with first participant a > 0 and second participant b > 0, the index built
\* by the load returns the event for the key (a, t) and for the key (b, t), so
\* that a reference owned by either spouse resolves to the same event.
Loaded == pc \in {"inject", "blocks", "done"}

IndexHolds(key, r) ==
  LET c == DictGet(events_index, key, <<>>)
  IN \E i \in 1..Len(c) : /\ c[i].recno = r.recno /\ c[i].edate = r.edate
                          /\ c[i].per1 = r.per1 /\ c[i].per2 = r.per2

C26_BothSlotsIndexed ==
  Loaded =>
    \A k \in 1..Len(inp.G) :
       LET r == inp.G[k] IN
       (r.per1 > 0 /\ r.per2 > 0) =>
          /\ IndexHolds(<<r.per1, r.etype>>, r)
          /\ IndexHolds(<<r.per2, r.etype>>, r)

\* the marriage declared in the records of both spouses: the reference of the
\* second record finds the row the first one wrote and is skipped
C26_Witness ==
  /\ pc = "done" /\ run = 1 /\ ~DRY_RUN
  /\ inp.gedcom = GedcomMulti(<<Marr(<<Shar("I3", "buyer", "")>>)>>,
                              <<Marr(<<Shar("I3", "buyer", "")>>)>>)
  /\ outcomes = <<"ok", "skip">> /\ Len(E) = 1 /\ E[1].gnum = 1

(***************************************************************************)
(* C27                                                                     *)
(***************************************************************************)
\* C27: a text written by rebuild_tsentence is reproduced token for token when
\* it is parsed by parse_tsentence and the value parsed is serialized again
C27_RoundTrip == gram.stage = "done" => gram.texts[2] = gram.texts[1]

(***************************************************************************)
(* C28                                                                     *)
(***************************************************************************)
\* the records of T.DBF for an event type
TypeRecords(t) == {T[i] : i \in {j \in 1..Len(T) : T[j].etypenum = t}}

RowCode(row) == IntOf(normalize_role_id(row.role))

\* C28: the role code of an appended row is written in the label section of
\* the record of the matched event's own type, as the synchronizer left it, or
\* is the default code 2; it is looked up under that type and no other, so a
\* code allocated for another event type is never used.
C28_CodesInsideType ==
  AppendedLast =>
    LET info == lastIns.info
        row == E[Len(E)]
        own == EventRow(row.gnum).etype
        wit == CodesAt(own, "WITNESS")
    IN /\ info.eid = own
       /\ \/ RowCode(row) = DefaultCode
          \/ /\ TypeRecords(own) # {}
             /\ \A rec \in TypeRecords(own) : RowCode(row) \in Range(SectionCodes(rec.tsentence))
       /\ RowCode(row) \in {CodesAt(own, info.role).NORMAL, CodesAt(own, info.role).PRINCIPAL,
                            wit.NORMAL, wit.PRINCIPAL, DefaultCode}
       /\ \A t \in DOMAIN created :
            (t # own /\ RowCode(row) \in Range(created[t]) /\ RowCode(row) # DefaultCode) =>
              \E rec \in TypeRecords(own) : RowCode(row) \in Range(SectionCodes(rec.tsentence))

\* a row of a Birth gets code 3 for a role that this run gave code 4 in Marriage
C28_Witness ==
  /\ AppendedLast
  /\ EventRow(E[Len(E)].gnum).etype = 2
  /\ RowCode(E[Len(E)]) = 3
  /\ 1 \in DOMAIN created /\ 4 \in Range(created[1])
  /\ CodesAt(1, lastIns.info.role).NORMAL = 4

(***************************************************************************)
(* C29                                                                     *)
(***************************************************************************)
\* the number a stored role writes, whatever its padding
RoleNumber(val) == IF val.t = "int" THEN val.n ELSE IntOf(val.s)

\* the key of a stored row: event, person, role as five digits, primary flag
PaddedKey(r) == <<r.gnum, r.eper, Fmt05(RoleNumber(r.role)), r.primary>>

TableKeys(rows) ==
  {PaddedKey(rows[i]) : i \in {j \in 1..Len(rows) : rows[j].gnum > 0 /\ rows[j].eper > 0}}

InjectionPass == pc \in {"inject", "blocks", "done"}

\* C29: during a real injection pass the cache existing_witnesses is, after each
\* reference, the set of the keys of the rows of E.DBF that have an event and
\* a person, the role written as five digits (a stored 3 or "3" has the key of
\* "00003"); a key enters the cache only together with the row that carries it.
C29_CacheTracksTable ==
  (~DRY_RUN /\ InjectionPass) =>
     /\ existing_witnesses = TableKeys(E)
     /\ lastIns.res \in {"ok", "principal"} =>
          /\ lastIns.info.key \in existing_witnesses
          /\ PaddedKey(E[Len(E)]) = lastIns.info.key

\* the table held a Buyer row with the role stored as the number 3 and rows
\* without event or person; the reference that repeats it was skipped and
\* another one appended
C29_Witness ==
  /\ ~DRY_RUN /\ pc = "done" /\ run = 1
  /\ inp.E = TableEGaps
  /\ outcomes = <<"skip", "ok">>
  /\ Len(E) = Len(inp.E) + 1
  /\ <<1, 3, "00003", FALSE>> \in existing_witnesses
  /\ Cardinality(existing_witnesses) = 3

(***************************************************************************)
(* C30                                                                     *)
(***************************************************************************)
\* the real run that followed a simulation on the same inputs has finished
RealAfterSimulation == simulated.done /\ run = 1 /\ pc = "done"

====
